---- MODULE Spec2Model ----
(***************************************************************************)
(* A model of the turn-based simulation core of the chargrid roguelike:    *)
(* the World (entity table, components, layered spatial table), the        *)
(* Inventory, and the GameState orchestrator.                              *)
(*                                                                         *)
(* A World value is a record with the fields of struct World.  Every       *)
(* operation of World is an operator from a call context                   *)
(* [world, message_log, ret, panic, note] to the context after it; the     *)
(* values drawn from the random number generator are explicit arguments.   *)
(* The actions of the specifications apply one operation each and store    *)
(* the resulting fields in the variables.                                  *)
(***************************************************************************)
EXTENDS Integers, Sequences, FiniteSets, TLC

VARIABLES
    world,          \* GameState.world: World
    player_entity,  \* GameState.player_entity: Entity
    ai_state,       \* GameState.ai_state: the set of entities that own an Agent
    message_log,    \* GameState.message_log: Vec<LogMessage>
    dungeon_level,  \* GameState.dungeon_level: u32
    inv,            \* a free-standing Inventory value (SpecInventory only)
    visibility_grid,\* GameState.visibility_grid: VisibilityGrid
    stamped,        \* history: the cells each VisibilityGrid::update marked, in order
    visibility_algorithm, \* AppData.visibility_algorithm: VisibilityAlgorithm
    log_limit,      \* exploration budget: the longest message log explored
    call            \* the last operation applied, its arguments, draws and result

vars == <<world, player_entity, ai_state, message_log, dungeon_level, inv, visibility_grid,
          stamped, visibility_algorithm, log_limit, call>>

----------------------------------------------------------------------------
(* Bounds of the exploration *)

\* messages that may be appended to the initial log of a scenario
MaxLog == 1
\* level_up_character is applied at most this many times
MaxLevelUps == 1
\* inventory indices 0..MaxIndex are passed to the item operations
MaxIndex == 1
\* a scroll is aimed at the cells this many cardinal steps away at most
MaxAim == 2
\* capacities 1..MaxCapacity and entities 0..MaxCapacity of the free-standing
\* Inventory
MaxCapacity == 3

\* the deepest dungeon level explored
MaxDungeonLevel == 2
\* VisibilityGrid::update is applied at most this many times
MaxUpdates == 2
\* generate_dungeon attempts to add a room this many times (NUM_ATTEMPTS in
\* the code)
MaxAttempts == 2
\* a room is at most this much wider and higher than the smallest room
MaxRoomGrowth == 0
\* at most this many NPCs and this many items are placed in a room
MaxPlaced == 1

----------------------------------------------------------------------------
(* Program constants *)

PLAYER_HIT_POINTS == 20
ORC_HIT_POINTS == 2
TROLL_HIT_POINTS == 6
INVENTORY_CAPACITY == 10
HEALTH_TO_HEAL == 5
LEVEL_UP_HEALTH_INCREASE == 5
CONFUSION_DURATION_FACTOR == 3
VISION_DISTANCE_SQUARED == 100
\* i32::MAX, and the radix of the two 16-bit limbs a u32 is kept in
I32_MAX == 2147483647
LIMB == 65536

I32_MIN == (-I32_MAX) - 1

----------------------------------------------------------------------------
(* Option<Entity>, Option<usize>: NONE stands for None *)

NONE == -1

(* ComponentTable<T>: a function from the entities that have the component *)
EmptyTable == [e \in {} |-> 0]

Has(table, e) == e \in DOMAIN table

Insert(table, e, v) == [x \in (DOMAIN table) \cup {e} |-> IF x = e THEN v ELSE table[x]]

Remove(table, e) == [x \in (DOMAIN table) \ {e} |-> table[x]]

\* the member of a set of one value: The({F(v) : v \in {e}}) is F(e) with e
\* computed once, however often F refers to it
The(values) == CHOOSE value \in values : TRUE

Min2(a, b) == IF a <= b THEN a ELSE b

Max2(a, b) == IF a >= b THEN a ELSE b

----------------------------------------------------------------------------
(* Integer widths.  base_damage, strength, dexterity and intelligence are  *)
(* i32; hit points, damage and durations are u32.  A u32 that may exceed   *)
(* the checker's integers is kept as two 16-bit limbs [hi, lo].            *)

ClampI32(n) == IF n > I32_MAX THEN I32_MAX ELSE IF n < I32_MIN THEN I32_MIN ELSE n

\* i32::saturating_sub: saturates at the bounds of i32, not at zero
SaturatingSubI32(a, b) == ClampI32(a - b)

\* `n as u32` for an i32 n: two's complement reinterpretation
AsU32(n) == [hi |-> (n \div LIMB) % LIMB, lo |-> n % LIMB]

U32IsZero(u) == u.hi = 0 /\ u.lo = 0

\* u32::saturating_sub(current, damage) for current < 2^31
SaturatingSubU32(current, damage) ==
    IF damage.hi >= LIMB \div 2 THEN 0
    ELSE Max2(0, current - (damage.hi * LIMB + damage.lo))

----------------------------------------------------------------------------
(* Coordinates, directions and layers *)

Coord(x, y) == [x |-> x, y |-> y]

CardinalDirections == {"North", "East", "South", "West"}

DirectionCoord(d) ==
    CASE d = "North" -> Coord(0, -1)
      [] d = "East"  -> Coord(1, 0)
      [] d = "South" -> Coord(0, 1)
      [] d = "West"  -> Coord(-1, 0)

Add(a, b) == Coord(a.x + b.x, a.y + b.y)

Sub(a, b) == Coord(a.x - b.x, a.y - b.y)

IsValid(c, size) == c.x >= 0 /\ c.y >= 0 /\ c.x < size.width /\ c.y < size.height

CoordsOf(size) == {Coord(x, y) : x \in 0..(size.width - 1), y \in 0..(size.height - 1)}

Layers == {"floor", "character", "object", "feature", "projectile"}

EmptyLayers == [l \in Layers |-> NONE]

----------------------------------------------------------------------------
(* EntityAllocator: alloc hands out identifiers that were never handed out *)
(* before, free retires one, clear starts over.                            *)

NewAllocator == [next_id |-> 0, live |-> {}]

AllocEntity(allocator) == allocator.next_id

Alloc(allocator) ==
    [next_id |-> allocator.next_id + 1, live |-> allocator.live \cup {allocator.next_id}]

Free(allocator, entity) == [allocator EXCEPT !.live = @ \ {entity}]

----------------------------------------------------------------------------
(* SpatialTable<Layers>: location_component maps an entity to its Location *)
(* (coord, layer); spatial_grid maps a coordinate to its Layers, one       *)
(* Option<Entity> per layer.  An update that fails leaves the table as it  *)
(* was and names the occupant.                                             *)

NewSpatialTable(size) ==
    [size |-> size,
     location_component |-> EmptyTable,
     spatial_grid |-> [c \in CoordsOf(size) |-> EmptyLayers]]

LayersAt(table, coord) == table.spatial_grid[coord]

HasCoord(table, entity) == Has(table.location_component, entity)

CoordOf(table, entity) == table.location_component[entity].coord

LayerOf(table, entity) ==
    IF HasCoord(table, entity) THEN table.location_component[entity].layer ELSE "none"

SetSlot(grid, coord, layer, value) == [grid EXCEPT ![coord][layer] = value]

UpdateOk(table) == [ok |-> TRUE, occupied_by |-> NONE, table |-> table]

UpdateErr(table, occupant) == [ok |-> FALSE, occupied_by |-> occupant, table |-> table]

\* SpatialTable::update(entity, Location { coord, layer: Some(layer) })
SpatialUpdate(table, entity, coord, layer) ==
    IF ~IsValid(coord, table.size) THEN UpdateErr(table, NONE)
    ELSE IF LayersAt(table, coord)[layer] \notin {NONE, entity}
    THEN UpdateErr(table, LayersAt(table, coord)[layer])
    ELSE LET vacated ==
                 IF HasCoord(table, entity)
                 THEN SetSlot(table.spatial_grid, CoordOf(table, entity),
                              table.location_component[entity].layer, NONE)
                 ELSE table.spatial_grid
         IN  UpdateOk([table EXCEPT
                 !.spatial_grid = SetSlot(vacated, coord, layer, entity),
                 !.location_component =
                     Insert(@, entity, [coord |-> coord, layer |-> layer])])

\* a slip of update_coord: the source slot keeps the entity
SpatialUpdateCoordKeepsSource(table, entity, coord) ==
    IF ~HasCoord(table, entity) \/ ~IsValid(coord, table.size)
    THEN UpdateErr(table, NONE)
    ELSE LET location == table.location_component[entity]
         IN  IF LayersAt(table, coord)[location.layer] \notin {NONE, entity}
             THEN UpdateErr(table, LayersAt(table, coord)[location.layer])
             ELSE UpdateOk([table EXCEPT
                     !.spatial_grid = SetSlot(@, coord, location.layer, entity),
                     !.location_component[entity].coord = coord])

\* SpatialTable::update_coord(entity, coord)
SpatialUpdateCoord(table, entity, coord) ==
    IF ~HasCoord(table, entity) \/ ~IsValid(coord, table.size)
    THEN UpdateErr(table, NONE)
    ELSE LET location == table.location_component[entity]
         IN  IF coord = location.coord THEN UpdateOk(table)
             ELSE IF LayersAt(table, coord)[location.layer] # NONE
             THEN UpdateErr(table, LayersAt(table, coord)[location.layer])
             ELSE UpdateOk([table EXCEPT
                     !.spatial_grid =
                         SetSlot(SetSlot(@, location.coord, location.layer, NONE),
                                 coord, location.layer, entity),
                     !.location_component[entity].coord = coord])

\* SpatialTable::update_layer(entity, layer)
SpatialUpdateLayer(table, entity, layer) ==
    IF ~HasCoord(table, entity) THEN UpdateErr(table, NONE)
    ELSE LET location == table.location_component[entity]
         IN  IF layer = location.layer THEN UpdateOk(table)
             ELSE IF LayersAt(table, location.coord)[layer] # NONE
             THEN UpdateErr(table, LayersAt(table, location.coord)[layer])
             ELSE UpdateOk([table EXCEPT
                     !.spatial_grid =
                         SetSlot(SetSlot(@, location.coord, location.layer, NONE),
                                 location.coord, layer, entity),
                     !.location_component[entity].layer = layer])

\* SpatialTable::remove(entity)
SpatialRemove(table, entity) ==
    IF ~HasCoord(table, entity) THEN table
    ELSE LET location == table.location_component[entity]
         IN  [table EXCEPT
                 !.spatial_grid = SetSlot(@, location.coord, location.layer, NONE),
                 !.location_component = Remove(@, entity)]

----------------------------------------------------------------------------
(* Inventory: slots is a Vec<Option<Entity>>; index i of the code is       *)
(* position i + 1 of the sequence.                                         *)

NewInventory(capacity) == [slots |-> [i \in 1..capacity |-> NONE]]

FreeSlots(inventory) == {i \in 1..Len(inventory.slots) : inventory.slots[i] = NONE}

\* a slip of the search: the last free slot is found
LastFreeSlot(inventory) ==
    CHOOSE i \in FreeSlots(inventory) : \A j \in FreeSlots(inventory) : i >= j

\* the slot `find(|s| s.is_none())` yields: the first free one
FirstFreeSlot(inventory) ==
    CHOOSE i \in FreeSlots(inventory) : \A j \in FreeSlots(inventory) : i <= j

\* a slip of insert: a full inventory takes the item into its last slot
InventoryInsertOverwrites(inventory, item) ==
    IF FreeSlots(inventory) = {}
    THEN [ok |-> TRUE,
          inventory |-> [inventory EXCEPT !.slots[Len(inventory.slots)] = item]]
    ELSE [ok |-> TRUE,
          inventory |-> [inventory EXCEPT
              !.slots[CHOOSE i \in FreeSlots(inventory) :
                          \A j \in FreeSlots(inventory) : i <= j] = item]]

\* Inventory::insert
InventoryInsert(inventory, item) ==
    IF FreeSlots(inventory) = {}
    THEN [ok |-> FALSE, inventory |-> inventory]
    ELSE [ok |-> TRUE,
          inventory |-> [inventory EXCEPT !.slots[FirstFreeSlot(inventory)] = item]]

\* Inventory::get
InventoryGet(inventory, index) ==
    IF index + 1 \in 1..Len(inventory.slots) /\ inventory.slots[index + 1] # NONE
    THEN [ok |-> TRUE, item |-> inventory.slots[index + 1]]
    ELSE [ok |-> FALSE, item |-> NONE]

\* a slip of remove: the slot keeps the item it hands out
InventoryRemoveKeepsItem(inventory, index) ==
    IF index + 1 \in 1..Len(inventory.slots) /\ inventory.slots[index + 1] # NONE
    THEN [ok |-> TRUE, item |-> inventory.slots[index + 1], inventory |-> inventory]
    ELSE [ok |-> FALSE, item |-> NONE, inventory |-> inventory]

\* Inventory::remove
InventoryRemove(inventory, index) ==
    IF index + 1 \in 1..Len(inventory.slots) /\ inventory.slots[index + 1] # NONE
    THEN [ok |-> TRUE, item |-> inventory.slots[index + 1],
          inventory |-> [inventory EXCEPT !.slots[index + 1] = NONE]]
    ELSE [ok |-> FALSE, item |-> NONE, inventory |-> inventory]

----------------------------------------------------------------------------
(* Tiles, item types, projectile types and log messages.  A Tile and a     *)
(* LogMessage are a tag followed by the payload of the variant ("" when    *)
(* the variant has none).                                                  *)

NpcTypes == {"Orc", "Troll"}

ItemTypes == {"HealthPotion", "FireballScroll", "ConfusionScroll", "Sword", "Staff", "Armour", "Robe"}

Tile(tag, payload) == <<tag, payload>>

Msg(tag, payload) == <<tag, payload>>

Fireball(damage) == [kind |-> "Fireball", amount |-> damage]

Confusion(duration) == [kind |-> "Confusion", amount |-> duration]

CombatMessageTags ==
    {"PlayerAttacksNpc", "NpcAttacksPlayer", "PlayerKillsNpc", "NpcKillsPlayer",
     "PlayerDodges", "NpcDodges"}

\* line_2d::CardinalStepIter::new(delta): the cardinal steps of the line from
\* the origin to delta, as the sequence of directions still to come
RECURSIVE CardinalStepsFrom(_, _, _)
CardinalStepsFrom(done_x, done_y, delta) ==
    LET ax == IF delta.x < 0 THEN -delta.x ELSE delta.x
        ay == IF delta.y < 0 THEN -delta.y ELSE delta.y
        dir_x == IF delta.x < 0 THEN "West" ELSE "East"
        dir_y == IF delta.y < 0 THEN "North" ELSE "South"
        x_next == IF ax >= ay
                  THEN done_x < ax /\ (done_y = ay \/ done_x * ay <= done_y * ax)
                  ELSE done_x < ax /\ (done_y = ay \/ done_x * ay < done_y * ax)
    IN  IF done_x = ax /\ done_y = ay THEN <<>>
        ELSE IF x_next THEN <<dir_x>> \o CardinalStepsFrom(done_x + 1, done_y, delta)
        ELSE <<dir_y>> \o CardinalStepsFrom(done_x, done_y + 1, delta)

CardinalStepIter(delta) == CardinalStepsFrom(0, 0, delta)

----------------------------------------------------------------------------
(* World *)

ComponentNames ==
    {"tile", "npc_type", "hit_points", "item", "inventory", "trajectory", "projectile",
     "confusion_countdown", "stairs", "base_damage", "strength", "dexterity",
     "intelligence", "equipment_worn_inventory_index", "equipment_held_inventory_index"}

NewComponents == [name \in ComponentNames |-> EmptyTable]

\* Components::remove_entity: the entity leaves every component table
ComponentsRemoveEntity(components, entity) ==
    [name \in ComponentNames |-> Remove(components[name], entity)]

\* World::new
NewWorld(size) ==
    [entity_allocator |-> NewAllocator,
     components |-> NewComponents,
     spatial_table |-> NewSpatialTable(size)]

SetComponent(w, name, entity, value) ==
    [w EXCEPT !.components[name] = Insert(@, entity, value)]

ClearComponent(w, name, entity) ==
    [w EXCEPT !.components[name] = Remove(@, entity)]

\* the common part of the spawn_* functions: allocate an entity, place it,
\* give it its tile; ok is false where the code's unwrap of update fails
Spawn(w, coord, layer, tile) ==
    LET entity == AllocEntity(w.entity_allocator)
        update == SpatialUpdate(w.spatial_table, entity, coord, layer)
    IN  [ok |-> update.ok,
         entity |-> entity,
         world |-> SetComponent(
             [w EXCEPT !.entity_allocator = Alloc(@), !.spatial_table = update.table],
             "tile", entity, tile)]

SpawnWall(w, coord) == Spawn(w, coord, "feature", Tile("Wall", "")).world

SpawnFloor(w, coord) == Spawn(w, coord, "floor", Tile("Floor", "")).world

SpawnPlayer(w, coord) ==
    LET s == Spawn(w, coord, "character", Tile("Player", ""))
        e == s.entity
    IN  SetComponent(SetComponent(SetComponent(SetComponent(SetComponent(SetComponent(
            s.world,
            "hit_points", e, [current |-> PLAYER_HIT_POINTS, max |-> PLAYER_HIT_POINTS]),
            "base_damage", e, 1),
            "strength", e, 1),
            "dexterity", e, 1),
            "intelligence", e, 1),
            "inventory", e, NewInventory(INVENTORY_CAPACITY))

NpcHitPoints(npc_type) == IF npc_type = "Orc" THEN ORC_HIT_POINTS ELSE TROLL_HIT_POINTS

NpcStrength(npc_type) == IF npc_type = "Orc" THEN 1 ELSE 2

NpcDexterity(npc_type) == IF npc_type = "Orc" THEN 1 ELSE 0

SpawnNpc(w, coord, npc_type) ==
    LET s == Spawn(w, coord, "character", Tile("Npc", npc_type))
        e == s.entity
    IN  SetComponent(SetComponent(SetComponent(SetComponent(SetComponent(
            s.world,
            "npc_type", e, npc_type),
            "hit_points", e,
                [current |-> NpcHitPoints(npc_type), max |-> NpcHitPoints(npc_type)]),
            "base_damage", e, 1),
            "strength", e, NpcStrength(npc_type)),
            "dexterity", e, NpcDexterity(npc_type))

SpawnItem(w, coord, item_type) ==
    LET s == Spawn(w, coord, "object", Tile("Item", item_type))
    IN  SetComponent(s.world, "item", s.entity, item_type)

SpawnStairs(w, coord) ==
    LET s == Spawn(w, coord, "floor", Tile("Stairs", ""))
    IN  SetComponent(s.world, "stairs", s.entity, TRUE)

\* ok is false when the projectile slot of `from` is taken: the unwrap panics
SpawnProjectile(w, from, to, projectile_type) ==
    LET s == Spawn(w, from, "projectile", Tile("Projectile", projectile_type))
    IN  [ok |-> s.ok,
         world |-> SetComponent(SetComponent(s.world,
             "projectile", s.entity, projectile_type),
             "trajectory", s.entity, CardinalStepIter(Sub(to, from)))]

\* a slip of remove_entity: the components of the entity are left behind
RemoveEntityKeepsComponents(w, entity) ==
    [entity_allocator |-> Free(w.entity_allocator, entity),
     components |-> w.components,
     spatial_table |-> SpatialRemove(w.spatial_table, entity)]

\* World::remove_entity
RemoveEntity(w, entity) ==
    [entity_allocator |-> Free(w.entity_allocator, entity),
     components |-> ComponentsRemoveEntity(w.components, entity),
     spatial_table |-> SpatialRemove(w.spatial_table, entity)]

\* World::is_living_character
IsLivingCharacter(w, entity) == LayerOf(w.spatial_table, entity) = "character"

IsNpc(w, entity) == Has(w.components.npc_type, entity)

----------------------------------------------------------------------------
(* Terrain and World::populate.  A terrain is a sequence of rows of        *)
(* TerrainTile, row y + 1 holding the tiles of y; populate visits it in    *)
(* row-major order.                                                        *)

TerrainSize(terrain) == [width |-> Len(terrain[1]), height |-> Len(terrain)]

TerrainAt(terrain, coord) == terrain[coord.y + 1][coord.x + 1]

\* one arm of the match in populate
PopulateTile(acc, coord, terrain_tile) ==
    CASE terrain_tile[1] = "Player" ->
            LET w1 == SpawnFloor(acc.world, coord)
            IN  [acc EXCEPT !.player_entity = AllocEntity(w1.entity_allocator),
                            !.world = SpawnPlayer(w1, coord)]
      [] terrain_tile[1] = "Floor" -> [acc EXCEPT !.world = SpawnFloor(@, coord)]
      [] terrain_tile[1] = "Stairs" -> [acc EXCEPT !.world = SpawnStairs(@, coord)]
      [] terrain_tile[1] = "Wall" ->
            [acc EXCEPT !.world = SpawnWall(SpawnFloor(@, coord), coord)]
      [] terrain_tile[1] = "Npc" ->
            [acc EXCEPT !.ai_state = @ \cup {AllocEntity(acc.world.entity_allocator)},
                        !.world = SpawnFloor(SpawnNpc(@, coord, terrain_tile[2]), coord)]
      [] terrain_tile[1] = "Item" ->
            [acc EXCEPT !.world = SpawnFloor(SpawnItem(@, coord, terrain_tile[2]), coord)]

RECURSIVE PopulateFrom(_, _, _)
PopulateFrom(acc, terrain, index) ==
    LET size == TerrainSize(terrain)
        coord == Coord(index % size.width, index \div size.width)
    IN  IF index = size.width * size.height THEN acc
        ELSE PopulateFrom(PopulateTile(acc, coord, TerrainAt(terrain, coord)),
                          terrain, index + 1)

\* World::populate on the terrain the generator returned: the Populate value
\* (player_entity, ai_state) and the populated world
Populate(w, terrain) ==
    PopulateFrom([world |-> w, player_entity |-> NONE, ai_state |-> {}], terrain, 0)

----------------------------------------------------------------------------
(* Call contexts.  ret is the value the call returned ("Ok", "Err", or the *)
(* ItemUsage), panic says that the call aborted the program, and note      *)
(* records what maybe_move_character found and resolved: the coordinate    *)
(* and the confusion countdown of the mover before the call (NONE: not     *)
(* confused), the direction used, the character on the target cell, and    *)
(* for a bump attack the victim's hit points and tile before it, the terms *)
(* of the damage and the outcome.                                          *)

NoNote ==
    [direction |-> "", from |-> [x |-> -1, y |-> -1], countdown |-> NONE,
     occupant |-> NONE, attack |-> FALSE, victim_hit_points |-> 0, victim_tile |-> <<"", "">>,
     gross |-> 0, reduction |-> 0, outcome |-> ""]

Ctx(w, log) == [world |-> w, message_log |-> log, ret |-> "Ok", panic |-> FALSE, note |-> NoNote]

Panic(ctx) == [ctx EXCEPT !.panic = TRUE, !.ret = "panic"]

\* a slip of the push: the message is put in front of the log
PushInFront(ctx, message) == [ctx EXCEPT !.message_log = <<message>> \o @]

Push(ctx, message) == [ctx EXCEPT !.message_log = Append(@, message)]

Return(ctx, value) == [ctx EXCEPT !.ret = value]

----------------------------------------------------------------------------
(* Combat *)

\* a slip of the corpse tile: the character keeps its tile
CorpseTileKeepsTile(current_tile) == current_tile

\* the corpse tile character_die chooses; "unexpected" where the code panics
CorpseTile(current_tile) ==
    IF current_tile[1] = "Player" THEN Tile("PlayerCorpse", "")
    ELSE IF current_tile[1] = "Npc" THEN Tile("NpcCorpse", current_tile[2])
    ELSE Tile("unexpected", "")

\* World::character_die: ok is false where the code panics
CharacterDie(w, entity) ==
    LET \* the second update_layer, after the object in the way is removed
        Replaced(removed) ==
            The({[ok |-> second.ok, world |-> [removed EXCEPT !.spatial_table = second.table]] :
                    second \in {SpatialUpdateLayer(removed.spatial_table, entity, "object")}})
        Placed(first) ==
            IF first.ok THEN [ok |-> TRUE, world |-> [w EXCEPT !.spatial_table = first.table]]
            ELSE IF first.occupied_by = NONE THEN [ok |-> FALSE, world |-> w]
            ELSE Replaced(RemoveEntity(w, first.occupied_by))
        Corpse(placed, corpse_tile) ==
            IF ~placed.ok \/ corpse_tile[1] = "unexpected" THEN [ok |-> FALSE, world |-> w]
            ELSE [ok |-> TRUE, world |-> SetComponent(placed.world, "tile", entity, corpse_tile)]
    IN  The({Corpse(placed, IF Has(placed.world.components.tile, entity)
                            THEN CorpseTile(placed.world.components.tile[entity])
                            ELSE Tile("unexpected", "")) :
                placed \in {The({Placed(first) :
                    first \in {SpatialUpdateLayer(w.spatial_table, entity, "object")}})}})

\* World::character_damage; damage is a u32 in limbs
CharacterDamage(w, victim, damage) ==
    IF ~Has(w.components.hit_points, victim)
    THEN [ok |-> TRUE, dies |-> FALSE, world |-> w]
    ELSE LET current == SaturatingSubU32(w.components.hit_points[victim].current, damage)
             hurt == [w EXCEPT !.components.hit_points[victim].current = current]
         IN  IF current = 0
             THEN The({[ok |-> death.ok, dies |-> TRUE, world |-> death.world] :
                          death \in {CharacterDie(hurt, victim)}})
             ELSE [ok |-> TRUE, dies |-> FALSE, world |-> hurt]

\* the net damage of character_bump_attack, as the code computes it
NetDamage(gross_damage, damage_reduction) ==
    AsU32(SaturatingSubI32(gross_damage, damage_reduction))

\* World::character_bump_attack with the two values drawn from the rng:
\* r1 from 0..attacker_strength, r2 from 0..victim_dexterity
CharacterBumpAttack(w, victim, attacker, r1, r2) ==
    IF ~(Has(w.components.base_damage, attacker) /\ Has(w.components.strength, attacker)
         /\ Has(w.components.dexterity, victim))
    THEN [ok |-> FALSE, world |-> w, outcome |-> "", gross |-> 0, reduction |-> 0]
    ELSE LET gross_damage == w.components.base_damage[attacker] + r1
             damage_reduction == r2
             net_damage == NetDamage(gross_damage, damage_reduction)
         IN  IF U32IsZero(net_damage)
             THEN [ok |-> TRUE, world |-> w, outcome |-> "Dodge",
                   gross |-> gross_damage, reduction |-> damage_reduction]
             ELSE The({[ok |-> damaged.ok, world |-> damaged.world,
                        outcome |-> IF damaged.dies THEN "Kill" ELSE "Hit",
                        gross |-> gross_damage, reduction |-> damage_reduction] :
                          damaged \in {CharacterDamage(w, victim, net_damage)}})

\* World::write_combat_log_messages
CombatLogMessage(attacker_is_player, outcome, npc_type) ==
    IF attacker_is_player
    THEN CASE outcome = "Kill" -> Msg("PlayerKillsNpc", npc_type)
           [] outcome = "Hit" -> Msg("PlayerAttacksNpc", npc_type)
           [] outcome = "Dodge" -> Msg("NpcDodges", npc_type)
    ELSE CASE outcome = "Kill" -> Msg("NpcKillsPlayer", npc_type)
           [] outcome = "Hit" -> Msg("NpcAttacksPlayer", npc_type)
           [] outcome = "Dodge" -> Msg("PlayerDodges", npc_type)

----------------------------------------------------------------------------
(* World::maybe_move_character *)

\* a slip of the countdown: it is cleared as soon as it is found
ConfusionStepClearsAtOnce(ctx, character_entity) ==
    [ctx EXCEPT !.world = ClearComponent(@, "confusion_countdown", character_entity)]

\* the countdown part of maybe_move_character for a confused character
ConfusionStep(ctx, character_entity) ==
    LET w == ctx.world
        countdown == w.components.confusion_countdown[character_entity]
    IN  IF countdown = 0
        THEN LET cleared == [ctx EXCEPT !.world =
                                 ClearComponent(w, "confusion_countdown", character_entity)]
             IN  IF IsNpc(w, character_entity)
                 THEN Push(cleared, Msg("NpcIsNoLongerConfused",
                                        w.components.npc_type[character_entity]))
                 ELSE cleared
        ELSE [ctx EXCEPT !.world.components.confusion_countdown[character_entity] = countdown - 1]

\* a slip of the test: any two characters fight
HostileAlways(w, character_entity, dest_character_entity) == TRUE

\* the test that turns a move into an occupied cell into a bump attack
Hostile(w, character_entity, dest_character_entity) ==
    IsNpc(w, character_entity) # IsNpc(w, dest_character_entity)

\* a slip of the test: walls do not stop a character
EnterableAlways(dest_layers) == TRUE

\* the test that lets a character step onto a cell without a character
Enterable(dest_layers) == dest_layers.feature = NONE

\* the part of maybe_move_character that follows the choice of the direction
MoveResolved(ctx, character_entity, direction, r1, r2) ==
    LET w == ctx.world
        character_coord == CoordOf(w.spatial_table, character_entity)
        new_character_coord == Add(character_coord, DirectionCoord(direction))
        dest_layers == LayersAt(w.spatial_table, new_character_coord)
        dest_character_entity == dest_layers.character
        character_is_npc == IsNpc(w, character_entity)
        found == [ctx EXCEPT !.note.occupant = dest_character_entity]
        npc_type == IF character_is_npc THEN w.components.npc_type[character_entity]
                    ELSE IF IsNpc(w, dest_character_entity)
                    THEN w.components.npc_type[dest_character_entity]
                    ELSE "none"
        update == SpatialUpdateCoord(w.spatial_table, character_entity, new_character_coord)
    IN  IF ~IsValid(new_character_coord, w.spatial_table.size) THEN ctx
        ELSE IF dest_character_entity # NONE
        THEN IF Hostile(w, character_entity, dest_character_entity)
             THEN The({IF ~attack.ok THEN Panic(found)
                       ELSE Push([found EXCEPT
                                     !.world = attack.world,
                                     !.note.attack = TRUE,
                                     !.note.victim_hit_points =
                                         w.components.hit_points[dest_character_entity].current,
                                     !.note.victim_tile =
                                         w.components.tile[dest_character_entity],
                                     !.note.gross = attack.gross,
                                     !.note.reduction = attack.reduction,
                                     !.note.outcome = attack.outcome],
                                 CombatLogMessage(~character_is_npc, attack.outcome, npc_type)) :
                          attack \in {CharacterBumpAttack(w, dest_character_entity,
                                                          character_entity, r1, r2)}})
             ELSE found
        ELSE IF Enterable(dest_layers)
        THEN IF update.ok THEN [ctx EXCEPT !.world.spatial_table = update.table]
             ELSE Panic(ctx)
        ELSE ctx

\* World::maybe_move_character with the values drawn from the rng: a direction
\* (used by a confused character only) and the two draws of a bump attack
MaybeMoveCharacter(ctx, character_entity, direction, random_direction, r1, r2) ==
    LET confused == Has(ctx.world.components.confusion_countdown, character_entity)
        used == IF confused THEN random_direction ELSE direction
        counted == IF confused THEN ConfusionStep(ctx, character_entity) ELSE ctx
        noted == [counted EXCEPT
                     !.ret = "Ok",
                     !.note = [NoNote EXCEPT
                         !.direction = used,
                         !.from = CoordOf(ctx.world.spatial_table, character_entity),
                         !.countdown =
                             IF confused
                             THEN ctx.world.components.confusion_countdown[character_entity]
                             ELSE NONE]]
    IN  IF ~HasCoord(ctx.world.spatial_table, character_entity) THEN Panic(ctx)
        ELSE MoveResolved(noted, character_entity, used, r1, r2)

\* the character a move of the entity in the direction would bump into, if
\* the code would resolve a bump attack there
BumpVictim(w, character_entity, direction) ==
    LET target == Add(CoordOf(w.spatial_table, character_entity), DirectionCoord(direction))
        occupant == IF IsValid(target, w.spatial_table.size)
                    THEN LayersAt(w.spatial_table, target).character
                    ELSE NONE
    IN  IF occupant # NONE /\ Hostile(w, character_entity, occupant)
        THEN occupant
        ELSE NONE

\* gen_range(0..(stat + 1)) of the stat of an entity; no draw is made (0
\* stands for it) when there is no bump attack or the stat is missing
DrawRange(w, stat, entity) ==
    IF entity # NONE /\ Has(w.components[stat], entity)
    THEN 0..w.components[stat][entity]
    ELSE {0}

\* every result maybe_move_character can have, over the draws of the rng
MoveOutcomes(ctx, character_entity, direction) ==
    IF ~HasCoord(ctx.world.spatial_table, character_entity) THEN {Panic(ctx)}
    ELSE UNION {
        LET victim == BumpVictim(ctx.world, character_entity, rd)
        IN  {MaybeMoveCharacter(ctx, character_entity, direction, rd, r1, r2) :
                r1 \in DrawRange(ctx.world, "strength",
                                 IF victim = NONE THEN NONE ELSE character_entity),
                r2 \in DrawRange(ctx.world, "dexterity", victim)} :
        rd \in IF Has(ctx.world.components.confusion_countdown, character_entity)
               THEN CardinalDirections ELSE {direction}}

----------------------------------------------------------------------------
(* Items *)

\* a slip of the pickup: the item stays in the spatial table
TakeItemLeavesPlacement(w, character, object_entity, inventory) ==
    [w EXCEPT !.components.inventory[character] = inventory]

\* the successful pickup of maybe_get_item: the inventory that took the item
\* is stored, and the item leaves the spatial table
TakeItem(w, character, object_entity, inventory) ==
    [w EXCEPT !.components.inventory[character] = inventory,
              !.spatial_table = SpatialRemove(@, object_entity)]

\* World::maybe_get_item
MaybeGetItem(ctx, character) ==
    LET w == ctx.world
        coord == CoordOf(w.spatial_table, character)
        object_entity == LayersAt(w.spatial_table, coord).object
        item_type == w.components.item[object_entity]
        insert == InventoryInsert(w.components.inventory[character], object_entity)
        taken == [ctx EXCEPT !.world = TakeItem(w, character, object_entity, insert.inventory)]
    IN  IF ~HasCoord(w.spatial_table, character) THEN Panic(ctx)
        ELSE IF object_entity # NONE /\ Has(w.components.item, object_entity)
        THEN IF ~Has(w.components.inventory, character) THEN Panic(ctx)
             ELSE IF insert.ok
             THEN Return(Push(taken, Msg("PlayerGets", item_type)), "Ok")
             ELSE Return(Push(ctx, Msg("PlayerInventoryIsFull", "")), "Err")
        ELSE Return(Push(ctx, Msg("NoItemUnderPlayer", "")), "Err")

\* a slip of the potion: it heals beyond the maximum
HealUncapped(hit_points) == [hit_points EXCEPT !.current = @ + HEALTH_TO_HEAL]

\* the hit points a health potion leaves
Heal(hit_points) ==
    [hit_points EXCEPT !.current = Min2(hit_points.max, hit_points.current + HEALTH_TO_HEAL)]

\* World::maybe_use_item
MaybeUseItem(ctx, character, inventory_index) ==
    LET w == ctx.world
        inventory == w.components.inventory[character]
        got == InventoryGet(inventory, inventory_index)
        item_type == w.components.item[got.item]
        hit_points == w.components.hit_points[character]
        healed == [ctx EXCEPT
                      !.world.components.hit_points[character] = Heal(hit_points),
                      !.world.components.inventory[character] =
                          InventoryRemove(inventory, inventory_index).inventory]
    IN  IF ~Has(w.components.inventory, character) THEN Panic(ctx)
        ELSE IF ~got.ok THEN Return(Push(ctx, Msg("NoItemInInventorySlot", "")), "Err")
        ELSE IF ~Has(w.components.item, got.item) THEN Panic(ctx)
        ELSE IF item_type = "HealthPotion"
        THEN IF ~Has(w.components.hit_points, character) THEN Panic(ctx)
             ELSE Return(Push(healed, Msg("PlayerHeals", "")), "Immediate")
        ELSE IF item_type \in {"FireballScroll", "ConfusionScroll"} THEN Return(ctx, "Aim")
        ELSE IF item_type \in {"Sword", "Staff"}
        THEN Return([ctx EXCEPT !.world = SetComponent(w, "equipment_held_inventory_index",
                                                       character, inventory_index)],
                    "Immediate")
        ELSE Return([ctx EXCEPT !.world = SetComponent(w, "equipment_worn_inventory_index",
                                                       character, inventory_index)],
                    "Immediate")

\* World::maybe_use_item_aim
MaybeUseItemAim(ctx, character, inventory_index, target) ==
    LET w == ctx.world
        character_coord == CoordOf(w.spatial_table, character)
        removed == InventoryRemove(w.components.inventory[character], inventory_index)
        item_type == w.components.item[removed.item]
        w1 == [w EXCEPT !.components.inventory[character] = removed.inventory]
        intelligence == Max2(w.components.intelligence[character], 0)
        projectile_type == IF item_type = "FireballScroll" THEN Fireball(intelligence)
                           ELSE Confusion(intelligence * CONFUSION_DURATION_FACTOR)
        spawned == SpawnProjectile(w1, character_coord, target, projectile_type)
    IN  IF ~HasCoord(w.spatial_table, character) THEN Panic(ctx)
        ELSE IF character_coord = target THEN Return(ctx, "Err")
        ELSE IF ~Has(w.components.inventory, character) \/ ~removed.ok THEN Panic(ctx)
        ELSE IF ~Has(w.components.item, removed.item) THEN Panic(ctx)
        ELSE IF item_type \notin {"FireballScroll", "ConfusionScroll"} THEN Panic(ctx)
        ELSE IF ~Has(w.components.intelligence, character) \/ ~spawned.ok THEN Panic(ctx)
        ELSE Return(Push([ctx EXCEPT !.world = spawned.world],
                         Msg("PlayerLaunchesProjectile", projectile_type)), "Ok")

\* a slip of the drop: the equipment indices stay
UnequipNothing(w, character, inventory_index) == w

\* the two `if` blocks of maybe_drop_item that take off dropped equipment
Unequip(w, character, inventory_index) ==
    LET held == w.components.equipment_held_inventory_index
        worn == w.components.equipment_worn_inventory_index
        w1 == IF Has(held, character) /\ held[character] = inventory_index
              THEN ClearComponent(w, "equipment_held_inventory_index", character)
              ELSE w
    IN  IF Has(worn, character) /\ worn[character] = inventory_index
        THEN ClearComponent(w1, "equipment_worn_inventory_index", character)
        ELSE w1

\* a slip of the test: an item is dropped onto any cell
HasSpaceToDropAlways(layers) == TRUE

\* the test of maybe_drop_item for the cell of the character
HasSpaceToDrop(layers) == layers.object = NONE

\* World::maybe_drop_item
MaybeDropItem(ctx, character, inventory_index) ==
    LET w == ctx.world
        coord == CoordOf(w.spatial_table, character)
        removed == InventoryRemove(w.components.inventory[character], inventory_index)
        update == SpatialUpdate(w.spatial_table, removed.item, coord, "object")
        dropped == [w EXCEPT !.components.inventory[character] = removed.inventory,
                             !.spatial_table = update.table]
    IN  IF ~HasCoord(w.spatial_table, character) THEN Panic(ctx)
        ELSE IF ~HasSpaceToDrop(LayersAt(w.spatial_table, coord))
        THEN Return(Push(ctx, Msg("NoSpaceToDropItem", "")), "Err")
        ELSE IF ~Has(w.components.inventory, character) THEN Panic(ctx)
        ELSE IF ~removed.ok THEN Return(Push(ctx, Msg("NoItemInInventorySlot", "")), "Err")
        ELSE IF ~update.ok \/ ~Has(w.components.item, removed.item) THEN Panic(ctx)
        ELSE Return(Push([ctx EXCEPT !.world = Unequip(dropped, character, inventory_index)],
                         Msg("PlayerDrops", w.components.item[removed.item])), "Ok")

----------------------------------------------------------------------------
(* Projectiles *)

\* the entities of a table in the order its iterator yields them
RECURSIVE Ascending(_)
Ascending(entities) ==
    IF entities = {} THEN <<>>
    ELSE LET least == CHOOSE e \in entities : \A other \in entities : e <= other
         IN  <<least>> \o Ascending(entities \ {least})

\* the vectors the first loop of move_projectiles fills
Stepping(w) ==
    [world |-> w, ok |-> TRUE, entities_to_remove |-> <<>>, fireball_hit |-> <<>>,
     confusion_hit |-> <<>>]

\* a slip of the first loop: the hit is looked for on the cell the projectile
\* leaves
StepProjectileHitsWhereItIs(acc, entity) ==
    LET w == acc.world
        trajectory == w.components.trajectory[entity]
        direction == Head(trajectory)
        advanced == [w EXCEPT !.components.trajectory[entity] = Tail(trajectory)]
        current_coord == CoordOf(w.spatial_table, entity)
        new_coord == Add(current_coord, DirectionCoord(direction))
        dest_layers == LayersAt(w.spatial_table, new_coord)
        character == LayersAt(w.spatial_table, current_coord).character
        projectile_type == w.components.projectile[entity]
        update == SpatialUpdateCoord(w.spatial_table, entity, new_coord)
        moved == [advanced EXCEPT !.spatial_table = update.table]
        hit == [character |-> character, amount |-> projectile_type.amount]
    IN  IF ~acc.ok THEN acc
        ELSE IF trajectory = <<>>
        THEN [acc EXCEPT !.entities_to_remove = Append(@, entity)]
        ELSE IF ~HasCoord(w.spatial_table, entity) \/ ~IsValid(new_coord, w.spatial_table.size)
        THEN [acc EXCEPT !.ok = FALSE]
        ELSE IF dest_layers.feature # NONE
        THEN [acc EXCEPT !.world = moved, !.entities_to_remove = Append(@, entity)]
        ELSE IF character # NONE
        THEN IF ~Has(w.components.projectile, entity)
             THEN [acc EXCEPT !.world = moved, !.entities_to_remove = Append(@, entity)]
             ELSE IF projectile_type.kind = "Fireball"
             THEN [acc EXCEPT !.world = moved, !.entities_to_remove = Append(@, entity),
                              !.fireball_hit = Append(@, hit)]
             ELSE [acc EXCEPT !.world = moved, !.entities_to_remove = Append(@, entity),
                              !.confusion_hit = Append(@, hit)]
        ELSE [acc EXCEPT !.world = moved]

\* one iteration of the first loop of move_projectiles; ok is false where
\* layers_at_checked panics
StepProjectile(acc, entity) ==
    LET w == acc.world
        trajectory == w.components.trajectory[entity]
        direction == Head(trajectory)
        advanced == [w EXCEPT !.components.trajectory[entity] = Tail(trajectory)]
        current_coord == CoordOf(w.spatial_table, entity)
        new_coord == Add(current_coord, DirectionCoord(direction))
        dest_layers == LayersAt(w.spatial_table, new_coord)
        character == dest_layers.character
        projectile_type == w.components.projectile[entity]
        update == SpatialUpdateCoord(w.spatial_table, entity, new_coord)
        moved == [advanced EXCEPT !.spatial_table = update.table]
        hit == [character |-> character, amount |-> projectile_type.amount]
    IN  IF ~acc.ok THEN acc
        ELSE IF trajectory = <<>>
        THEN [acc EXCEPT !.entities_to_remove = Append(@, entity)]
        ELSE IF ~HasCoord(w.spatial_table, entity) \/ ~IsValid(new_coord, w.spatial_table.size)
        THEN [acc EXCEPT !.ok = FALSE]
        ELSE IF dest_layers.feature # NONE
        THEN [acc EXCEPT !.world = moved, !.entities_to_remove = Append(@, entity)]
        ELSE IF character # NONE
        THEN IF ~Has(w.components.projectile, entity)
             THEN [acc EXCEPT !.world = moved, !.entities_to_remove = Append(@, entity)]
             ELSE IF projectile_type.kind = "Fireball"
             THEN [acc EXCEPT !.world = moved, !.entities_to_remove = Append(@, entity),
                              !.fireball_hit = Append(@, hit)]
             ELSE [acc EXCEPT !.world = moved, !.entities_to_remove = Append(@, entity),
                              !.confusion_hit = Append(@, hit)]
        ELSE [acc EXCEPT !.world = moved]

RECURSIVE StepProjectiles(_, _)
StepProjectiles(acc, entities) ==
    IF entities = <<>> THEN acc
    ELSE The({StepProjectiles(next, Tail(entities)) :
                 next \in {StepProjectile(acc, Head(entities))}})

RECURSIVE RemoveEntities(_, _)
RemoveEntities(w, entities) ==
    IF entities = <<>> THEN w
    ELSE The({RemoveEntities(next, Tail(entities)) :
                 next \in {RemoveEntity(w, Head(entities))}})

\* the loop of move_projectiles over fireball_hit
RECURSIVE ApplyFireballHits(_, _)
ApplyFireballHits(ctx, hits) ==
    LET entity == Head(hits).character
        maybe_npc == IsNpc(ctx.world, entity)
        damaged == CharacterDamage(ctx.world, entity, AsU32(Head(hits).amount))
        after == [ctx EXCEPT !.world = damaged.world]
    IN  IF hits = <<>> \/ ctx.panic THEN ctx
        ELSE IF ~damaged.ok THEN Panic(ctx)
        ELSE The({ApplyFireballHits(next, Tail(hits)) :
                     next \in {IF damaged.dies /\ maybe_npc
                               THEN Push(after, Msg("NpcDies",
                                                    ctx.world.components.npc_type[entity]))
                               ELSE after}})

\* the loop of move_projectiles over confusion_hit
RECURSIVE ApplyConfusionHits(_, _)
ApplyConfusionHits(ctx, hits) ==
    LET entity == Head(hits).character
        confused == [ctx EXCEPT !.world = SetComponent(@, "confusion_countdown", entity,
                                                       Head(hits).amount)]
    IN  IF hits = <<>> \/ ctx.panic THEN ctx
        ELSE The({ApplyConfusionHits(next, Tail(hits)) :
                     next \in {IF IsNpc(ctx.world, entity)
                               THEN Push(confused, Msg("NpcBecomesConfused",
                                                       ctx.world.components.npc_type[entity]))
                               ELSE confused}})

\* a slip of move_projectiles: entities_to_remove is never emptied into
\* remove_entity
MoveProjectilesInKeepsSpent(ctx, order) ==
    The({IF ~stepped.ok THEN Panic(ctx)
         ELSE The({The({Return(ApplyConfusionHits(burnt, stepped.confusion_hit), "Ok") :
                           burnt \in {ApplyFireballHits(removed, stepped.fireball_hit)}}) :
                      removed \in {[ctx EXCEPT !.world = stepped.world]}}) :
            stepped \in {StepProjectiles(Stepping(ctx.world), order)}})

\* World::move_projectiles, were the first loop to visit the projectiles in
\* the order given
MoveProjectilesIn(ctx, order) ==
    The({IF ~stepped.ok THEN Panic(ctx)
         ELSE The({The({Return(ApplyConfusionHits(burnt, stepped.confusion_hit), "Ok") :
                           burnt \in {ApplyFireballHits(removed, stepped.fireball_hit)}}) :
                      removed \in {[ctx EXCEPT !.world =
                                        RemoveEntities(stepped.world,
                                                       stepped.entities_to_remove)]}}) :
            stepped \in {StepProjectiles(Stepping(ctx.world), order)}})

\* World::move_projectiles: the iterator of the trajectory table yields the
\* projectiles in the order of their entities
MoveProjectiles(ctx) ==
    MoveProjectilesIn(ctx, Ascending(DOMAIN ctx.world.components.trajectory))

\* World::has_projectiles
HasProjectiles(w) == DOMAIN w.components.trajectory # {}

----------------------------------------------------------------------------
(* World::level_up_character *)

LevelUps == {"Strength", "Dexterity", "Intelligence", "Health"}

StatOf(level_up) ==
    CASE level_up = "Strength" -> "strength"
      [] level_up = "Dexterity" -> "dexterity"
      [] level_up = "Intelligence" -> "intelligence"
      [] level_up = "Health" -> "hit_points"

LevelUpCharacter(ctx, character_entity, level_up) ==
    LET w == ctx.world
        stat == StatOf(level_up)
    IN  IF ~Has(w.components[stat], character_entity) THEN Panic(ctx)
        ELSE IF level_up = "Health"
        THEN [ctx EXCEPT
                 !.world.components.hit_points[character_entity] =
                     [current |-> @.current + LEVEL_UP_HEALTH_INCREASE,
                      max |-> @.max + LEVEL_UP_HEALTH_INCREASE]]
        ELSE [ctx EXCEPT !.world.components[stat][character_entity] = @ + 1]

----------------------------------------------------------------------------
(* Taking a character out of a world and putting it into another one *)

\* the EntityData of an entity: the components it has
EntityDataOf(w, entity) ==
    [name \in {n \in ComponentNames : Has(w.components[n], entity)} |->
        w.components[name][entity]]

\* Components::update_entity_data: the components of the data are stored
UpdateEntityData(w, entity, entity_data) ==
    [w EXCEPT !.components =
        [name \in ComponentNames |->
            IF name \in DOMAIN entity_data
            THEN Insert(@[name], entity, entity_data[name])
            ELSE @[name]]]

\* the data remove_character collects for the slots of an inventory: for
\* every slot an Option<EntityData>, <<>> for None and <<data>> for Some(data)
RECURSIVE InventoryEntityData(_, _)
InventoryEntityData(w, slots) ==
    IF slots = <<>> THEN <<>>
    ELSE <<IF Head(slots) = NONE THEN <<>> ELSE <<EntityDataOf(w, Head(slots))>> >>
         \o InventoryEntityData(w, Tail(slots))

\* a slip of remove_character: the data of the items are not collected
RemoveCharacterLosesItems(w, entity) ==
    LET entity_data == EntityDataOf(w, entity)
        slots == entity_data.inventory.slots
        items == SelectSeq(slots, LAMBDA slot : slot # NONE)
    IN  IF "inventory" \notin DOMAIN entity_data
        THEN [ok |-> FALSE, world |-> w, entity_data |-> entity_data,
              inventory_entity_data |-> <<>>]
        ELSE [ok |-> TRUE,
              world |-> RemoveEntities(RemoveEntity(w, entity), items),
              entity_data |-> entity_data,
              inventory_entity_data |-> [i \in 1..Len(slots) |-> <<>>]]

\* World::remove_character: ok is false where the code panics
RemoveCharacter(w, entity) ==
    LET entity_data == EntityDataOf(w, entity)
        slots == entity_data.inventory.slots
        items == SelectSeq(slots, LAMBDA slot : slot # NONE)
    IN  IF "inventory" \notin DOMAIN entity_data
        THEN [ok |-> FALSE, world |-> w, entity_data |-> entity_data,
              inventory_entity_data |-> <<>>]
        ELSE [ok |-> TRUE,
              world |-> RemoveEntities(RemoveEntity(w, entity), items),
              entity_data |-> entity_data,
              inventory_entity_data |-> InventoryEntityData(w, slots)]

\* the loop of replace_character: a new entity for the data of every slot
RECURSIVE ReplaceItems(_, _, _)
ReplaceItems(w, inventory_entity_data, slots) ==
    IF inventory_entity_data = <<>> THEN [world |-> w, slots |-> slots]
    ELSE IF Head(inventory_entity_data) = <<>>
    THEN ReplaceItems(w, Tail(inventory_entity_data), Append(slots, NONE))
    ELSE LET entity == AllocEntity(w.entity_allocator)
             allocated == [w EXCEPT !.entity_allocator = Alloc(@)]
         IN  ReplaceItems(UpdateEntityData(allocated, entity, Head(inventory_entity_data)[1]),
                          Tail(inventory_entity_data), Append(slots, entity))

\* World::replace_character
ReplaceCharacter(w, entity, character_data) ==
    LET items == ReplaceItems(w, character_data.inventory_entity_data, <<>>)
        entity_data == [name \in DOMAIN character_data.entity_data |->
                           IF name = "inventory" THEN [slots |-> items.slots]
                           ELSE character_data.entity_data[name]]
    IN  UpdateEntityData(items.world, entity, entity_data)

\* World::coord_contains_stairs
CoordContainsStairs(w, coord) ==
    LET floor_entity == LayersAt(w.spatial_table, coord).floor
    IN  IsValid(coord, w.spatial_table.size) /\ floor_entity # NONE
        /\ Has(w.components.stairs, floor_entity)

----------------------------------------------------------------------------
(* The behaviour of the NPCs.  The distance map, the search and the line    *)
(* are those of the crates grid_search_cardinal and line_2d as the calls in *)
(* behaviour.rs use them: distances to the player over the cells without a *)
(* feature, a search over at most SEARCH_DISTANCE steps through the cells   *)
(* an NPC can enter for a shortest way to the cell nearest to the player,   *)
(* and the cells of the segment between two coordinates.  Where the search  *)
(* could pick among several first steps the model allows each of them.      *)

MAX_APPROACH_DISTANCE == 20

SEARCH_DISTANCE == 5

NPC_VISION_DISTANCE_SQUARED == 100

\* World::can_npc_enter_ignoring_other_npcs and World::can_npc_see_through_cell
CanNpcEnterIgnoringOtherNpcs(w, coord) ==
    IsValid(coord, w.spatial_table.size) /\ LayersAt(w.spatial_table, coord).feature = NONE

\* World::can_npc_enter
CanNpcEnter(w, coord) ==
    /\ IsValid(coord, w.spatial_table.size)
    /\ LET layers == LayersAt(w.spatial_table, coord)
       IN  /\ ~(layers.character # NONE /\ IsNpc(w, layers.character))
           /\ layers.feature = NONE

\* the cells next to one of the cells
Beside(cells) == {Add(c, DirectionCoord(d)) : c \in cells, d \in CardinalDirections}

\* populate_approach: the distance of every cell at most max steps from the
\* sources over the cells that can be entered
RECURSIVE PopulateApproach(_, _, _, _, _)
PopulateApproach(w, distances, frontier, distance, max) ==
    The({IF next = {} \/ distance = max THEN distances
         ELSE The({PopulateApproach(w, further, next, distance + 1, max) :
                      further \in {[c \in DOMAIN distances \cup next |->
                                       IF c \in DOMAIN distances THEN distances[c]
                                       ELSE distance + 1]}}) :
            next \in {{c \in Beside(frontier) \ DOMAIN distances :
                          CanNpcEnterIgnoringOtherNpcs(w, c)}}})

\* BehaviourContext::update: the distance map to the player
DistanceMapToPlayer(w, player_coord) ==
    PopulateApproach(w, [c \in {player_coord} |-> 0], {player_coord}, 0, MAX_APPROACH_DISTANCE)

\* the search of search_first: the number of steps to every cell at most max
\* steps from the frontier over the cells an NPC can enter
RECURSIVE SearchDepths(_, _, _, _, _)
SearchDepths(w, depths, frontier, depth, max) ==
    The({IF next = {} \/ depth >= max THEN depths
         ELSE The({SearchDepths(w, further, next, depth + 1, max) :
                      further \in {[c \in DOMAIN depths \cup next |->
                                       IF c \in DOMAIN depths THEN depths[c]
                                       ELSE depth + 1]}}) :
            next \in {{c \in Beside(frontier) \ DOMAIN depths : CanNpcEnter(w, c)}}})

\* the least of a set of numbers
Least(numbers) == CHOOSE n \in numbers : \A other \in numbers : n <= other

\* the cells the search heads for: of the cells in reach that are nearer to
\* the player than the start is, those of the least distance, and of these
\* the ones the search reaches first
Nearer(start, from_start, distance_map) ==
    LET nearer == {c \in (DOMAIN from_start \cap DOMAIN distance_map) \ {start} :
                      start \in DOMAIN distance_map =>
                          distance_map[c] < distance_map[start]}
        nearest == {c \in nearer :
                       distance_map[c] = Least({distance_map[n] : n \in nearer})}
    IN  {c \in nearest : from_start[c] = Least({from_start[n] : n \in nearest})}

\* a slip of search_first: any step to a cell the NPC can enter
SearchFirstAnyStep(w, start, distance_map) ==
    {d \in CardinalDirections : CanNpcEnter(w, Add(start, DirectionCoord(d)))}

\* search_first: the directions of the first step of a shortest way over at
\* most SEARCH_DISTANCE cells an NPC can enter to the cell nearest to the
\* player, none when no cell in reach is nearer than the start
SearchFirst(w, start, distance_map) ==
    The({{d \in CardinalDirections :
             LET first == Add(start, DirectionCoord(d))
             IN  /\ first \in DOMAIN from_start
                 /\ from_start[first] = 1
                 /\ The({\E c \in Nearer(start, from_start, distance_map) :
                             c \in DOMAIN from_first /\ from_first[c] + 1 = from_start[c] :
                         from_first \in
                             {SearchDepths(w, [c \in {start, first} |->
                                                  IF c = first THEN 0 ELSE SEARCH_DISTANCE],
                                           {first}, 0, SEARCH_DISTANCE - 1)}})} :
            from_start \in
                {SearchDepths(w, [c \in {start} |-> 0], {start}, 0, SEARCH_DISTANCE)}})

\* i * delta / steps rounded to the nearest integer
Interpolate(i, delta, steps) == (2 * i * delta + steps) \div (2 * steps)

\* LineSegment::new(src, dst).iter(): the cells of the segment
LineCoords(src, dst) ==
    LET delta == Sub(dst, src)
        steps == Max2(IF delta.x < 0 THEN -delta.x ELSE delta.x,
                      IF delta.y < 0 THEN -delta.y ELSE delta.y)
    IN  {Add(src, Coord(Interpolate(i, delta.x, steps), Interpolate(i, delta.y, steps))) :
            i \in 0..steps}

\* a slip of npc_has_line_of_sight: walls and distance do not hide the player
NpcSeesThroughWalls(src, dst, w) ==
    \/ src = dst
    \/ \A coord \in LineCoords(src, dst) : IsValid(coord, w.spatial_table.size)

\* npc_has_line_of_sight
NpcHasLineOfSight(src, dst, w) ==
    \/ src = dst
    \/ \A coord \in LineCoords(src, dst) :
           /\ (coord.x - src.x) * (coord.x - src.x) + (coord.y - src.y) * (coord.y - src.y)
                  <= NPC_VISION_DISTANCE_SQUARED
           /\ CanNpcEnterIgnoringOtherNpcs(w, coord)

\* Agent::act: the directions of NpcAction::Move, none for NpcAction::Wait
Act(w, entity, player, distance_map) ==
    LET npc_coord == CoordOf(w.spatial_table, entity)
        player_coord == CoordOf(w.spatial_table, player)
    IN  IF ~NpcHasLineOfSight(npc_coord, player_coord, w) THEN {}
        ELSE SearchFirst(w, npc_coord, distance_map)

----------------------------------------------------------------------------
(* GameState.  A game is a call context with the fields player_entity,      *)
(* ai_state (the entities that have an Agent) and dungeon_level; every      *)
(* operation of GameState yields the set of games it can end in, one for    *)
(* each way the rng can draw.                                               *)

\* the turn of one NPC in ai_turn
NpcTurn(game, entity, distance_map) ==
    IF game.panic THEN {game}
    ELSE IF ~HasCoord(game.world.spatial_table, entity) THEN {Panic(game)}
    ELSE LET directions == Act(game.world, entity, game.player_entity, distance_map)
         IN  IF directions = {} THEN {game}
             ELSE UNION {MoveOutcomes(game, entity, d) : d \in directions}

\* the loop of ai_turn over the agents
RECURSIVE NpcTurns(_, _, _)
NpcTurns(games, entities, distance_map) ==
    IF entities = <<>> THEN games
    ELSE The({NpcTurns(acted, Tail(entities), distance_map) :
                 acted \in {UNION {NpcTurn(game, Head(entities), distance_map) :
                                      game \in games}}})

\* a slip of ai_turn: the agents of the dead are not removed
AiTurnKeepsDead(game) ==
    LET table == game.world.spatial_table
        living == game.ai_state
    IN  IF game.panic THEN {game}
        ELSE IF ~HasCoord(table, game.player_entity) THEN {Panic(game)}
        ELSE The({NpcTurns({[game EXCEPT !.ai_state = living]}, Ascending(living),
                           distance_map) :
                     distance_map \in
                         {DistanceMapToPlayer(game.world, CoordOf(table, game.player_entity))}})

\* GameState::ai_turn
AiTurn(game) ==
    LET table == game.world.spatial_table
        living == {e \in game.ai_state : IsLivingCharacter(game.world, e)}
    IN  IF game.panic THEN {game}
        ELSE IF ~HasCoord(table, game.player_entity) THEN {Panic(game)}
        ELSE The({NpcTurns({[game EXCEPT !.ai_state = living]}, Ascending(living),
                           distance_map) :
                     distance_map \in
                         {DistanceMapToPlayer(game.world, CoordOf(table, game.player_entity))}})

\* the games of the set, returning the value
Returning(games, value) ==
    {IF game.panic THEN game ELSE Return(game, value) : game \in games}

\* GameState::is_player_alive
IsPlayerAlive(w, player) == IsLivingCharacter(w, player)

\* GameState::wait_player
GameWaitPlayer(game) ==
    IF HasProjectiles(game.world) THEN {game} ELSE Returning(AiTurn(game), "Ok")

\* GameState::maybe_move_player
GameMaybeMovePlayer(game, direction) ==
    IF HasProjectiles(game.world) THEN {game}
    ELSE Returning(UNION {AiTurn(moved) :
                             moved \in MoveOutcomes(game, game.player_entity, direction)},
                   "Ok")

\* a slip of maybe_player_get_item: the NPCs take their turn after a failure too
GameMaybePlayerGetItemAlwaysTurn(game) ==
    LET result == MaybeGetItem(game, game.player_entity)
    IN  IF HasProjectiles(game.world) THEN {game}
        ELSE IF result.ret = "Ok" THEN Returning(AiTurn(result), "Ok")
        ELSE Returning(AiTurn(result), "Err")

\* GameState::maybe_player_get_item
GameMaybePlayerGetItem(game) ==
    LET result == MaybeGetItem(game, game.player_entity)
    IN  IF HasProjectiles(game.world) THEN {game}
        ELSE IF result.ret = "Ok" THEN Returning(AiTurn(result), "Ok")
        ELSE {result}

\* GameState::maybe_player_use_item
GameMaybePlayerUseItem(game, inventory_index) ==
    LET result == MaybeUseItem(game, game.player_entity, inventory_index)
    IN  IF HasProjectiles(game.world) THEN {Return(game, "Err")}
        ELSE IF result.ret = "Immediate" THEN Returning(AiTurn(result), "Immediate")
        ELSE {result}

\* GameState::maybe_player_use_item_aim
GameMaybePlayerUseItemAim(game, inventory_index, target) ==
    {MaybeUseItemAim(game, game.player_entity, inventory_index, target)}

\* GameState::maybe_player_drop_item
GameMaybePlayerDropItem(game, inventory_index) ==
    LET result == MaybeDropItem(game, game.player_entity, inventory_index)
    IN  IF result.ret = "Ok" THEN Returning(AiTurn(result), "Ok") ELSE {result}

\* GameState::tick_animations
GameTickAnimations(game) == {MoveProjectiles(game)}

\* a slip of player_descend: the agents of the level left are kept
PlayerDescendKeepsAgents(game, terrain) ==
    LET removed == RemoveCharacter(game.world, game.player_entity)
        populated == Populate(NewWorld(game.world.spatial_table.size), terrain)
        player_data == [entity_data |-> removed.entity_data,
                        inventory_entity_data |-> removed.inventory_entity_data]
    IN  IF ~removed.ok \/ populated.player_entity = NONE THEN Panic(game)
        ELSE [game EXCEPT
                 !.world = ReplaceCharacter(populated.world, populated.player_entity,
                                            player_data),
                 !.player_entity = populated.player_entity,
                 !.dungeon_level = @ + 1]

\* GameState::player_descend into the dungeon the generator returns
PlayerDescend(game, terrain) ==
    LET removed == RemoveCharacter(game.world, game.player_entity)
        populated == Populate(NewWorld(game.world.spatial_table.size), terrain)
        player_data == [entity_data |-> removed.entity_data,
                        inventory_entity_data |-> removed.inventory_entity_data]
    IN  IF ~removed.ok \/ populated.player_entity = NONE THEN Panic(game)
        ELSE [game EXCEPT
                 !.world = ReplaceCharacter(populated.world, populated.player_entity,
                                            player_data),
                 !.player_entity = populated.player_entity,
                 !.ai_state = populated.ai_state,
                 !.dungeon_level = @ + 1]

\* GameState::maybe_player_descend
GameMaybePlayerDescend(game, terrain) ==
    LET table == game.world.spatial_table
    IN  IF ~HasCoord(table, game.player_entity) THEN {Panic(game)}
        ELSE IF CoordContainsStairs(game.world, CoordOf(table, game.player_entity))
        THEN {PlayerDescend(game, terrain)}
        ELSE {game}

----------------------------------------------------------------------------
(* Scenarios.  A terrain is what the generator returned; a scenario is the *)
(* game on that terrain, fresh or after the listed operations.             *)

P == <<"Player", "">>
F == <<"Floor", "">>
W == <<"Wall", "">>
S == <<"Stairs", "">>
N(npc_type) == <<"Npc", npc_type>>
I(item_type) == <<"Item", item_type>>

\* a wall, a scroll, the player next to an orc, a troll behind it, the stairs
SmallTerrain ==
    << <<W, I("ConfusionScroll"), P, N("Orc"), N("Troll"), S>> >>

\* a corridor: the player, one item more than the inventory holds, the stairs
CorridorTerrain ==
    << <<P, I("HealthPotion"), I("FireballScroll"), I("Sword"), I("Armour"),
         I("ConfusionScroll"), I("Staff"), I("Robe"), I("HealthPotion"),
         I("HealthPotion"), I("HealthPotion"), I("HealthPotion"), S>> >>

\* a potion, a fireball scroll, the player, and a troll next to it
HealthTerrain ==
    << <<I("HealthPotion"), I("FireballScroll"), P, N("Troll")>> >>

\* the player, two fireball scrolls and an orc, and a second row
CrossfireTerrain ==
    << <<P, I("FireballScroll"), I("FireballScroll"), N("Orc")>>,
       <<F, F, F, F>> >>

\* the player, a potion, an orc and a troll
GraveTerrain ==
    << <<P, I("HealthPotion"), N("Orc"), N("Troll")>> >>

\* an orc next to the player, a troll behind it, and a way around the orc
DetourTerrain ==
    << <<P, N("Orc"), N("Troll")>>,
       <<F, F, F>> >>

\* an orc and a troll two and three cells from the player, and a second row
ChaseTerrain ==
    << <<P, F, N("Orc"), N("Troll")>>,
       <<F, F, F, F>> >>

\* the player behind a wall from a troll, and a way around the wall
WallTerrain ==
    << <<P, W, N("Troll")>>,
       <<F, F, F>> >>

\* the player and an orc eleven cells away
FarTerrain ==
    << <<P, F, F, F, F, F, F, F, F, F, F, N("Orc")>> >>

\* the stairs, a scroll, the player, and a troll two cells away
StairsTerrain ==
    << <<S, I("FireballScroll"), P, F, N("Troll")>> >>

\* a wall, the stairs, two pieces of equipment, the player, a potion, a scroll
\* and a troll
PackTerrain ==
    << <<W, S, I("Armour"), I("Sword"), P, I("HealthPotion"), I("FireballScroll"),
         N("Troll")>> >>

\* a wall, two scrolls, the player, and a troll two cells away
RangeTerrain ==
    << <<W, I("FireballScroll"), I("ConfusionScroll"), P, F, N("Troll")>> >>

\* a room without NPCs: a wall, the stairs, two pieces of equipment, the
\* player, a potion and a cell of floor
ArmouryTerrain ==
    << <<W, S, I("Armour"), I("Sword"), P, I("HealthPotion"), F>> >>

\* a square room: the player, a wall, and two cells of floor
SquareTerrain ==
    << <<P, W>>,
       <<F, F>> >>

\* a landing: the stairs, the player, and an orc two cells away
LandingTerrain ==
    << <<S, P, F, N("Orc")>> >>

\* a landing no NPC is on
QuietLandingTerrain ==
    << <<S, P, F, F>> >>

\* two scrolls, a potion, the player and an orc in a room of three by two
FlightTerrain ==
    << <<I("FireballScroll"), I("ConfusionScroll"), F>>,
       <<P, I("HealthPotion"), N("Orc")>> >>

\* the dungeons generate_dungeon returns in the model for a grid of the size
Dungeons(size) ==
    {terrain \in {SmallTerrain, CorridorTerrain, StairsTerrain, PackTerrain, ArmouryTerrain,
                  LandingTerrain, QuietLandingTerrain} :
        TerrainSize(terrain) = size}

\* the game after GameState::new on a terrain
Fresh(terrain) ==
    LET populated == Populate(NewWorld(TerrainSize(terrain)), terrain)
    IN  [world |-> populated.world,
         player_entity |-> populated.player_entity,
         ai_state |-> populated.ai_state,
         message_log |-> <<>>,
         dungeon_level |-> 1,
         ret |-> "Ok", panic |-> FALSE, note |-> NoNote]

\* one World operation of a script, with the rng drawing (direction, 0, 0)
Apply(ctx, player, step) ==
    CASE step[1] = "move" -> MaybeMoveCharacter(ctx, player, step[2], step[2], 0, 0)
      [] step[1] = "get" -> MaybeGetItem(ctx, player)
      [] step[1] = "aim" -> MaybeUseItemAim(ctx, player, step[2], step[3])
      [] step[1] = "tick" -> MoveProjectiles(ctx)
      [] step[1] = "npc" ->
            MaybeMoveCharacter(ctx, LayersAt(ctx.world.spatial_table, step[2]).character,
                               step[3], step[3], step[4], step[5])

\* the context after the World operations of a script
RECURSIVE Replay(_, _, _)
Replay(ctx, player, script) ==
    IF script = <<>> THEN ctx
    ELSE The({Replay(next, player, Tail(script)) :
                 next \in {Apply(c, player, Head(script)) : c \in {ctx}}})

\* the game after the World operations of a script on the player
After(game, script) == Replay(game, game.player_entity, script)

\* the player has read the confusion scroll at the orc, and it has hit
ConfusedOrc ==
    After(Fresh(SmallTerrain),
          << <<"move", "West">>, <<"get">>, <<"aim", 0, Coord(3, 0)>>, <<"tick">>, <<"tick">> >>)

RECURSIVE Collect(_)
Collect(n) == IF n = 0 THEN <<>> ELSE << <<"move", "East">>, <<"get">> >> \o Collect(n - 1)

\* the player has walked down the corridor and picked up an item on every cell
\* until the inventory was full
FullInventory == After(Fresh(CorridorTerrain), Collect(INVENTORY_CAPACITY))

\* the same walk, stopped one item before the inventory was full
AlmostFullInventory == After(Fresh(CorridorTerrain), Collect(INVENTORY_CAPACITY - 1))

\* the player has picked up the potion; the troll has come up and hit once
\* for 3
PotionInPack ==
    After(Fresh(PackTerrain),
          << <<"move", "East">>, <<"get">>,
             <<"npc", Coord(7, 0), "West", 0, 0>>, <<"npc", Coord(6, 0), "West", 2, 0>> >>)

\* the player has picked up the sword and the potion; the troll has come up
\* and hit twice for 3
SwordAndPotionInPack ==
    After(Fresh(PackTerrain),
          << <<"move", "West">>, <<"get">>, <<"move", "East">>, <<"move", "East">>, <<"get">>,
             <<"npc", Coord(7, 0), "West", 0, 0>>, <<"npc", Coord(6, 0), "West", 2, 0>>,
             <<"npc", Coord(6, 0), "West", 2, 0>> >>)

\* the player has picked up the two scrolls and stands next to the wall
ScrollsInPack ==
    After(Fresh(RangeTerrain),
          << <<"move", "West">>, <<"get">>, <<"move", "West">>, <<"get">> >>)

\* the player has read the confusion scroll at the next cell, and the
\* projectile has got there
ProjectileInFlight == After(ScrollsInPack, << <<"aim", 0, Coord(2, 0)>>, <<"tick">> >>)

\* the player has picked up the sword and the armour of the armoury and
\* stands next to the stairs
EquipmentInPack ==
    After(Fresh(ArmouryTerrain),
          << <<"move", "West">>, <<"get">>, <<"move", "West">>, <<"get">> >>)

\* the player has picked up the potion of the armoury
OneItemInPack == After(Fresh(ArmouryTerrain), << <<"move", "East">>, <<"get">> >>)

\* the player has picked up the fireball scroll, the confusion scroll and the
\* potion, has walked back and has read the fireball scroll at the orc
FireballLaunched ==
    After(Fresh(FlightTerrain),
          << <<"move", "North">>, <<"get">>, <<"move", "East">>, <<"get">>,
             <<"move", "South">>, <<"get">>, <<"move", "West">>,
             <<"aim", 0, Coord(2, 1)>> >>)

\* the same, the potion picked up before the confusion scroll
FireballLaunchedPotionNext ==
    After(Fresh(FlightTerrain),
          << <<"move", "North">>, <<"get">>, <<"move", "South">>, <<"move", "East">>,
             <<"get">>, <<"move", "North">>, <<"get">>, <<"move", "West">>,
             <<"move", "South">>, <<"aim", 0, Coord(2, 1)>> >>)

\* a confusion projectile on its way to the empty corner (2,0)
ConfusionLaunchedAtFloor ==
    After(Fresh(FlightTerrain),
          << <<"move", "North">>, <<"get">>, <<"move", "East">>, <<"get">>,
             <<"move", "South">>, <<"get">>, <<"move", "West">>,
             <<"aim", 1, Coord(2, 0)>> >>)

\* the fireball one frame on its way to the orc, the confusion projectile
\* launched behind it to the cell (1,0)
BothLaunched ==
    After(FireballLaunched, << <<"tick">>, <<"aim", 1, Coord(1, 0)>> >>)

\* the player has hit the orc next to it once for 1
OrcWounded == After(Fresh(SmallTerrain), << <<"move", "East">> >>)

\* the player has hit the orc twice and killed it; no ai_turn has run since
OrcKilled == After(Fresh(SmallTerrain), << <<"move", "East">>, <<"move", "East">> >>)

\* the orc has stepped onto the potion and the player has hit it once for 1
OrcOnPotion ==
    After(Fresh(GraveTerrain), << <<"npc", Coord(2, 0), "West", 0, 0>>, <<"move", "East">> >>)

\* the player has killed the orc, the troll has stepped onto the corpse and
\* the player has hit it five times for 1
TrollOnCorpse ==
    After(Fresh(SmallTerrain),
          << <<"move", "East">>, <<"move", "East">>, <<"npc", Coord(4, 0), "West", 0, 0>>,
             <<"move", "East">>, <<"move", "East">>, <<"move", "East">>, <<"move", "East">>,
             <<"move", "East">> >>)

\* the player has picked up both scrolls, hit the orc once for 1, read one
\* scroll at the orc from the west of it and the other from the south of it:
\* both fireballs are one step from the orc, which has 1 hit point
Crossfire ==
    After(Fresh(CrossfireTerrain),
          << <<"move", "East">>, <<"get">>, <<"move", "East">>, <<"get">>, <<"move", "East">>,
             <<"aim", 0, Coord(3, 0)>>, <<"move", "South">>, <<"move", "East">>,
             <<"aim", 1, Coord(3, 0)>> >>)

\* the player has picked up the scroll and the potion; the troll has come up
\* and hit once for 3
WoundedWithPotionAndScroll ==
    After(Fresh(HealthTerrain),
          << <<"move", "West">>, <<"get">>, <<"move", "West">>, <<"get">>,
             <<"npc", Coord(3, 0), "West", 0, 0>>, <<"npc", Coord(2, 0), "West", 0, 0>>,
             <<"npc", Coord(1, 0), "West", 2, 0>> >>)

\* the games one GameState operation of a script can end in
GameStep(game, step) ==
    CASE step[1] = "move" -> GameMaybeMovePlayer(game, step[2])
      [] step[1] = "get" -> GameMaybePlayerGetItem(game)
      [] step[1] = "wait" -> GameWaitPlayer(game)

\* the game after the operations of a script, each of which names as its
\* last element the hit points it leaves the player: the rng draws so
RECURSIVE Played(_, _)
Played(game, script) ==
    IF script = <<>> THEN game
    ELSE The({Played(next, Tail(script)) :
                 next \in {CHOOSE g \in GameStep(Return(start, "Ok"), Head(script)) :
                               /\ ~g.panic
                               /\ g.world.components.hit_points[g.player_entity].current
                                      = Head(script)[Len(Head(script))] :
                           start \in {game}}})

\* the player has picked up the scroll and stands on the stairs; the troll
\* has followed and hit six times for 3
WoundedOnStairs ==
    Played(Fresh(StairsTerrain),
           << <<"move", "West", 20>>, <<"get", 20>>, <<"move", "West", 20>>,
              <<"wait", 17>>, <<"wait", 14>>, <<"wait", 11>>, <<"wait", 8>>,
              <<"wait", 5>>, <<"wait", 2>> >>)

\* the player has picked up the potion; the troll has come up and hit six
\* times for 3
DyingWithPotion ==
    Played(Fresh(PackTerrain),
           << <<"move", "East", 20>>, <<"get", 17>>, <<"wait", 14>>, <<"wait", 11>>,
              <<"wait", 8>>, <<"wait", 5>>, <<"wait", 2>> >>)

\* the troll has hit once more and killed the player, which holds the potion
KilledWithPotion == Played(DyingWithPotion, << <<"wait", 0>> >>)

----------------------------------------------------------------------------
(* The World operations as actions.  Every action applies one operation to *)
(* the current world and log and records it in `call`.                     *)

NoCoord == Coord(-1, -1)

NoCall ==
    [op |-> "new", entity |-> NONE, direction |-> "", index |-> NONE, target |-> NoCoord,
     level_up |-> "", algorithm |-> "", input |-> "", terrain |-> <<>>, ret |-> "Ok", panic |-> FALSE, note |-> NoNote]

Here == Ctx(world, message_log)

\* the state after a call that ended in context ctx; a panic ends the program
\* with the state the call found
Commit(ctx, made) ==
    /\ ~call.panic
    /\ Len(ctx.message_log) <= log_limit
    /\ world' = IF ctx.panic THEN world ELSE ctx.world
    /\ message_log' = IF ctx.panic THEN message_log ELSE ctx.message_log
    /\ call' = [made EXCEPT !.ret = ctx.ret, !.panic = ctx.panic, !.note = ctx.note]

\* the characters the program moves: the player and the living NPCs
Movers == {player_entity} \cup {e \in ai_state : IsLivingCharacter(world, e)}

Indices == 0..MaxIndex

Abs(n) == IF n < 0 THEN -n ELSE n

\* the cells of the grid a scroll is aimed at (the caster's own among them)
AimTargets(w, caster) ==
    LET from == CoordOf(w.spatial_table, caster)
    IN  {c \in CoordsOf(w.spatial_table.size) :
            Abs(c.x - from.x) + Abs(c.y - from.y) <= MaxAim}

LevelUpCount(w, e) ==
    (w.components.strength[e] - 1) + (w.components.dexterity[e] - 1)
    + (w.components.intelligence[e] - 1)
    + ((w.components.hit_points[e].max - PLAYER_HIT_POINTS) \div LEVEL_UP_HEALTH_INCREASE)

WorldMaybeMoveCharacter ==
    \E e \in Movers, d \in CardinalDirections :
        \E ctx \in MoveOutcomes(Here, e, d) :
            /\ Commit(ctx, [NoCall EXCEPT !.op = "maybe_move_character",
                                          !.entity = e, !.direction = d])
            /\ UNCHANGED <<player_entity, ai_state, dungeon_level, inv, visibility_grid, stamped,
                       visibility_algorithm, log_limit>>

WorldMaybeGetItem ==
    /\ Commit(MaybeGetItem(Here, player_entity),
              [NoCall EXCEPT !.op = "maybe_get_item", !.entity = player_entity])
    /\ UNCHANGED <<player_entity, ai_state, dungeon_level, inv, visibility_grid, stamped,
                       visibility_algorithm, log_limit>>

WorldMaybeUseItem ==
    \E i \in Indices :
        /\ Commit(MaybeUseItem(Here, player_entity, i),
                  [NoCall EXCEPT !.op = "maybe_use_item", !.entity = player_entity,
                                 !.index = i])
        /\ UNCHANGED <<player_entity, ai_state, dungeon_level, inv, visibility_grid, stamped,
                       visibility_algorithm, log_limit>>

WorldMaybeUseItemAim ==
    \E i \in Indices, target \in AimTargets(world, player_entity) :
        /\ Commit(MaybeUseItemAim(Here, player_entity, i, target),
                  [NoCall EXCEPT !.op = "maybe_use_item_aim", !.entity = player_entity,
                                 !.index = i, !.target = target])
        /\ UNCHANGED <<player_entity, ai_state, dungeon_level, inv, visibility_grid, stamped,
                       visibility_algorithm, log_limit>>

WorldMaybeDropItem ==
    \E i \in Indices :
        /\ Commit(MaybeDropItem(Here, player_entity, i),
                  [NoCall EXCEPT !.op = "maybe_drop_item", !.entity = player_entity,
                                 !.index = i])
        /\ UNCHANGED <<player_entity, ai_state, dungeon_level, inv, visibility_grid, stamped,
                       visibility_algorithm, log_limit>>

WorldMoveProjectiles ==
    /\ Commit(MoveProjectiles(Here), [NoCall EXCEPT !.op = "move_projectiles"])
    /\ UNCHANGED <<player_entity, ai_state, dungeon_level, inv, visibility_grid, stamped,
                       visibility_algorithm, log_limit>>

WorldLevelUpCharacter ==
    \E level_up \in LevelUps :
        /\ LevelUpCount(world, player_entity) < MaxLevelUps
        /\ Commit(LevelUpCharacter(Here, player_entity, level_up),
                  [NoCall EXCEPT !.op = "level_up_character", !.entity = player_entity,
                                 !.level_up = level_up])
        /\ UNCHANGED <<player_entity, ai_state, dungeon_level, inv, visibility_grid, stamped,
                       visibility_algorithm, log_limit>>

\* level_up_character with LevelUp::Health
WorldLevelUpHealth ==
    /\ LevelUpCount(world, player_entity) < MaxLevelUps
    /\ Commit(LevelUpCharacter(Here, player_entity, "Health"),
              [NoCall EXCEPT !.op = "level_up_character", !.entity = player_entity,
                             !.level_up = "Health"])
    /\ UNCHANGED <<player_entity, ai_state, dungeon_level, inv, visibility_grid, stamped,
                   visibility_algorithm, log_limit>>

\* VisibilityGrid::new: no cell was stamped, the count of the updates is 1
VisibilityGridNew(size) ==
    [grid |-> [coord \in CoordsOf(size) |-> [last_seen |-> 0]], count |-> 1]

\* VisibilityGrid::clear, which player_descend calls: the grid is as
\* VisibilityGrid::new made it, no cell was ever seen
VisibilityGridClear(grid) ==
    [grid |-> [coord \in DOMAIN grid.grid |-> [last_seen |-> 0]], count |-> 1]

\* VisibilityGrid::cell_visibility; a coordinate outside the grid has no cell
CellVisibility(grid, coord) ==
    IF coord \in DOMAIN grid.grid
    THEN IF grid.grid[coord].last_seen = grid.count THEN "Currently"
         ELSE IF grid.grid[coord].last_seen = 0 THEN "Never"
         ELSE "Previously"
    ELSE "Never"

\* Option<ExamineCell>: None, or the kind of what was examined with its type
NoExamineCell == <<"None", "">>

\* World::examine_cell: the character of the cell, or else its object, if
\* its tile is one of the four that can be examined
WorldExamineCell(w, coord) ==
    IF ~IsValid(coord, w.spatial_table.size) THEN NoExamineCell
    ELSE LET layers == LayersAt(w.spatial_table, coord)
             entity == IF layers.character # NONE THEN layers.character ELSE layers.object
         IN  IF entity = NONE \/ ~Has(w.components.tile, entity) THEN NoExamineCell
             ELSE IF w.components.tile[entity][1] \in {"Npc", "NpcCorpse", "Item", "Player"}
             THEN w.components.tile[entity]
             ELSE NoExamineCell

\* a slip of GameState::examine_cell: the cells seen before are examined too
GameExamineCellRemembers(w, grid, coord) ==
    IF CellVisibility(grid, coord) \in {"Currently", "Previously"}
    THEN WorldExamineCell(w, coord)
    ELSE NoExamineCell

\* GameState::examine_cell
GameExamineCell(w, grid, coord) ==
    IF CellVisibility(grid, coord) = "Currently" THEN WorldExamineCell(w, coord)
    ELSE NoExamineCell

\* the sets of cells shadowcast::Context::for_each_visible may call its
\* closure on: the cell of the eye first, then cells of the grid within the
\* vision distance, which ones depending on the opacity of the cells between
ForEachVisible(player_coord, size) ==
    {visible \in SUBSET {coord \in CoordsOf(size) :
                             LET delta == Sub(coord, player_coord)
                             IN  delta.x * delta.x + delta.y * delta.y
                                     <= VISION_DISTANCE_SQUARED} :
        player_coord \in visible}

\* a slip of update: the count of the updates is not incremented
VisibilityGridUpdateSameCount(grid, visible, algorithm) ==
    [grid |-> [coord \in DOMAIN grid.grid |->
                  IF algorithm = "Omniscient" \/ coord \in visible
                  THEN [last_seen |-> grid.count]
                  ELSE grid.grid[coord]],
     count |-> grid.count]

\* VisibilityGrid::update, visible being the cells the shadowcast visits
VisibilityGridUpdate(grid, visible, algorithm) ==
    [grid |-> [coord \in DOMAIN grid.grid |->
                  IF algorithm = "Omniscient" \/ coord \in visible
                  THEN [last_seen |-> grid.count + 1]
                  ELSE grid.grid[coord]],
     count |-> grid.count + 1]

\* the fields of GameState but the visibility grid in the state of a game,
\* with room for MaxLog more messages
InitGame(game) ==
    /\ world = game.world
    /\ player_entity = game.player_entity
    /\ ai_state = game.ai_state
    /\ message_log = game.message_log
    /\ dungeon_level = game.dungeon_level
    /\ log_limit = Len(game.message_log) + MaxLog
    /\ call = NoCall

\* the program in the state of a game, the visibility grid as
\* VisibilityGrid::new makes it
InitOf(game) ==
    /\ InitGame(game)
    /\ visibility_grid = VisibilityGridNew(game.world.spatial_table.size)
    /\ stamped = <<>>
    /\ visibility_algorithm = "Shadowcast"

InitWorld == InitOf(Fresh(SmallTerrain)) /\ inv = NewInventory(0)

InitConfused == InitOf(ConfusedOrc) /\ inv = NewInventory(0)

InitFull ==
    \E game \in {AlmostFullInventory, FullInventory} : InitOf(game) /\ inv = NewInventory(0)

InitPotion ==
    \E game \in {PotionInPack, SwordAndPotionInPack} : InitOf(game) /\ inv = NewInventory(0)

InitScroll ==
    \E game \in {ScrollsInPack, ProjectileInFlight} : InitOf(game) /\ inv = NewInventory(0)

InitCarry ==
    \E game \in {OneItemInPack, EquipmentInPack} : InitOf(game) /\ inv = NewInventory(0)

\* the operations of the turns of a game on one dungeon level
NextTurns ==
    \/ WorldMaybeMoveCharacter
    \/ WorldMaybeGetItem
    \/ WorldMaybeUseItem
    \/ WorldMaybeUseItemAim
    \/ WorldMaybeDropItem
    \/ WorldMoveProjectiles

\* the operations that decide a fight: the moves, which bump, and the
\* level-ups, which change the terms of the damage
NextCombat ==
    \/ WorldMaybeMoveCharacter
    \/ WorldLevelUpCharacter

\* the operations by which a character carries items about
NextItems ==
    \/ WorldMaybeMoveCharacter
    \/ WorldMaybeGetItem
    \/ WorldMaybeUseItem
    \/ WorldMaybeDropItem

----------------------------------------------------------------------------
(* The GameState operations as actions *)

HereGame ==
    [world |-> world, player_entity |-> player_entity, ai_state |-> ai_state,
     message_log |-> message_log, dungeon_level |-> dungeon_level,
     ret |-> "Ok", panic |-> FALSE, note |-> NoNote]

\* the fields of GameState after an operation that ended in the game
GameResult(game, made) ==
    /\ Commit(game, made)
    /\ player_entity' = IF game.panic THEN player_entity ELSE game.player_entity
    /\ ai_state' = IF game.panic THEN ai_state ELSE game.ai_state
    /\ dungeon_level' = IF game.panic THEN dungeon_level ELSE game.dungeon_level

\* the state after a GameState operation that ended in the game
GameCommit(game, made) ==
    /\ GameResult(game, made)
    /\ UNCHANGED <<inv, visibility_grid, stamped, visibility_algorithm, log_limit>>

MaybeMovePlayer ==
    \E direction \in CardinalDirections :
        \E game \in GameMaybeMovePlayer(HereGame, direction) :
            GameCommit(game, [NoCall EXCEPT !.op = "maybe_move_player",
                                            !.direction = direction])

WaitPlayer ==
    \E game \in GameWaitPlayer(HereGame) :
        GameCommit(game, [NoCall EXCEPT !.op = "wait_player"])

MaybePlayerGetItem ==
    \E game \in GameMaybePlayerGetItem(HereGame) :
        GameCommit(game, [NoCall EXCEPT !.op = "maybe_player_get_item"])

MaybePlayerUseItem ==
    \E i \in Indices :
        \E game \in GameMaybePlayerUseItem(HereGame, i) :
            GameCommit(game, [NoCall EXCEPT !.op = "maybe_player_use_item", !.index = i])

MaybePlayerUseItemAim ==
    \E i \in Indices, target \in AimTargets(world, player_entity) :
        \E game \in GameMaybePlayerUseItemAim(HereGame, i, target) :
            GameCommit(game, [NoCall EXCEPT !.op = "maybe_player_use_item_aim",
                                            !.index = i, !.target = target])

MaybePlayerDropItem ==
    \E i \in Indices :
        \E game \in GameMaybePlayerDropItem(HereGame, i) :
            GameCommit(game, [NoCall EXCEPT !.op = "maybe_player_drop_item", !.index = i])

TickAnimations ==
    \E game \in GameTickAnimations(HereGame) :
        GameCommit(game, [NoCall EXCEPT !.op = "tick_animations"])

\* maybe_player_descend; when it descends, player_descend clears the
\* visibility grid
MaybePlayerDescend ==
    /\ dungeon_level < MaxDungeonLevel
    /\ \E terrain \in Dungeons(world.spatial_table.size) :
           \E game \in GameMaybePlayerDescend(HereGame, terrain) :
               LET descended == ~game.panic /\ game.dungeon_level # dungeon_level
               IN  /\ GameResult(game, [NoCall EXCEPT !.op = "maybe_player_descend"])
                   /\ visibility_grid' = IF descended THEN VisibilityGridClear(visibility_grid)
                                          ELSE visibility_grid
                   /\ stamped' = IF descended THEN <<>> ELSE stamped
                   /\ UNCHANGED <<inv, visibility_algorithm, log_limit>>

Init == InitOf(WoundedOnStairs) /\ inv = NewInventory(0)

Next ==
    \/ MaybeMovePlayer
    \/ WaitPlayer
    \/ MaybePlayerGetItem
    \/ MaybePlayerUseItem
    \/ MaybePlayerUseItemAim
    \/ MaybePlayerDropItem
    \/ TickAnimations
    \/ MaybePlayerDescend

\* the GameState operations from a game in which the player is wounded
Spec == Init /\ [][Next]_vars

\* the operations by which a character uses up what it carries
NextUse ==
    \/ WorldMaybeMoveCharacter
    \/ WorldMaybeUseItem
    \/ WorldMaybeUseItemAim
    \/ WorldMoveProjectiles

\* a player with scrolls in the pack, between a wall and a troll
SpecScroll == InitScroll /\ [][NextUse]_vars

\* the moves of a fight and the use of what the pack holds
NextPotion ==
    \/ WorldMaybeMoveCharacter
    \/ WorldMaybeUseItem

\* a player wounded once or twice, with a potion in the pack
SpecPotion == InitPotion /\ [][NextPotion]_vars

\* the operations by which a player carries items about and down the stairs
NextCarry ==
    \/ NextItems
    \/ MaybePlayerDescend

\* a player with one item, or a sword and an armour, in the pack
SpecCarry == InitCarry /\ [][NextCarry]_vars

\* the turns of a game on the small terrain
SpecWorld == InitWorld /\ [][NextTurns]_vars

\* the fights on the small terrain, between characters that level up
SpecCombat == InitWorld /\ [][NextCombat]_vars

\* the World operations after a confusion scroll has hit the orc
SpecConfused == InitConfused /\ [][NextTurns]_vars

\* items picked up, used and dropped with an inventory that is full or one item
\* short of it
SpecFull == InitFull /\ [][NextItems]_vars

----------------------------------------------------------------------------
(* The Inventory on its own: inv is an Inventory that Inventory::new made,  *)
(* and the actions are its three methods with every index and every item   *)
(* entity it does not hold already.                                         *)

ItemEntities == 0..MaxCapacity

Held(inventory) == {inventory.slots[i] : i \in 1..Len(inventory.slots)} \ {NONE}

InventoryCall(op, made, ok) ==
    /\ ~call.panic
    /\ call' = [made EXCEPT !.op = op, !.ret = IF ok THEN "Ok" ELSE "Err"]
    /\ UNCHANGED <<world, player_entity, ai_state, message_log, dungeon_level, visibility_grid,
                   stamped, visibility_algorithm, log_limit>>

InventoryInsertCall ==
    \E item \in ItemEntities \ Held(inv) :
        LET insert == InventoryInsert(inv, item)
        IN  /\ inv' = insert.inventory
            /\ InventoryCall("Inventory::insert", [NoCall EXCEPT !.entity = item], insert.ok)

InventoryRemoveCall ==
    \E index \in 0..MaxCapacity :
        LET remove == InventoryRemove(inv, index)
        IN  /\ inv' = remove.inventory
            /\ InventoryCall("Inventory::remove",
                             [NoCall EXCEPT !.index = index, !.entity = remove.item],
                             remove.ok)

InventoryGetCall ==
    \E index \in 0..MaxCapacity :
        LET get == InventoryGet(inv, index)
        IN  /\ inv' = inv
            /\ InventoryCall("Inventory::get",
                             [NoCall EXCEPT !.index = index, !.entity = get.item], get.ok)

InitInventory ==
    \E capacity \in 1..MaxCapacity :
        /\ InitOf(Fresh(SmallTerrain))
        /\ inv = NewInventory(capacity)

NextInventory ==
    \/ InventoryInsertCall
    \/ InventoryRemoveCall
    \/ InventoryGetCall

SpecInventory == InitInventory /\ [][NextInventory]_vars

----------------------------------------------------------------------------
(* The VisibilityGrid on its own: visibility_grid is the grid               *)
(* VisibilityGrid::new made for the world, and update is applied to it with *)
(* any cell of the grid as the eye                                          *)

VisibilityAlgorithms == {"Shadowcast", "Omniscient"}

VisibilityGridUpdateCall ==
    \E algorithm \in VisibilityAlgorithms :
        \E player_coord \in CoordsOf(world.spatial_table.size) :
            \E visible \in ForEachVisible(player_coord, world.spatial_table.size) :
                /\ ~call.panic
                /\ visibility_grid.count < 1 + MaxUpdates
                /\ visibility_grid' = VisibilityGridUpdate(visibility_grid, visible, algorithm)
                /\ stamped' = Append(stamped, IF algorithm = "Omniscient"
                                        THEN DOMAIN visibility_grid.grid
                                        ELSE visible)
                /\ call' = [NoCall EXCEPT !.op = "VisibilityGrid::update",
                                          !.target = player_coord,
                                          !.algorithm = algorithm]
                /\ UNCHANGED <<world, player_entity, ai_state, message_log, dungeon_level,
                               inv, visibility_algorithm, log_limit>>

InitVisibility == InitOf(Fresh(SquareTerrain)) /\ inv = NewInventory(0)

NextVisibility == VisibilityGridUpdateCall

SpecVisibility == InitVisibility /\ [][NextVisibility]_vars

----------------------------------------------------------------------------
(* AppData::handle_input, in its two steps: the key is passed to the        *)
(* operation of GameState it stands for, and when that has returned         *)
(* update_visibility updates the grid from the cell of the player.  `call`  *)
(* tells which of the two steps is next.                                    *)

\* the operations of GameState handle_input calls for a key
KeyOperations == {"maybe_move_player", "wait_player", "maybe_player_get_item"}

\* handle_input is not between its two steps, and an update is left
AwaitsInput == call.op \notin KeyOperations /\ visibility_grid.count < 1 + MaxUpdates

\* the match on the key in AppData::handle_input
HandleInputKey ==
    /\ AwaitsInput
    /\ \/ MaybeMovePlayer
       \/ WaitPlayer
       \/ MaybePlayerGetItem

\* a slip of update_visibility: the eye is the corner of the grid
GameUpdateVisibilityFromCorner(game, grid, algorithm) ==
    {[grid |-> VisibilityGridUpdate(grid, visible, algorithm),
      visible |-> IF algorithm = "Omniscient" THEN DOMAIN grid.grid ELSE visible] :
        visible \in ForEachVisible(Coord(0, 0), game.world.spatial_table.size)}

\* GameState::update_visibility: the grids the update can leave, each with
\* the cells it marked
GameUpdateVisibility(game, grid, algorithm) ==
    {[grid |-> VisibilityGridUpdate(grid, visible, algorithm),
      visible |-> IF algorithm = "Omniscient" THEN DOMAIN grid.grid ELSE visible] :
        visible \in ForEachVisible(CoordOf(game.world.spatial_table, game.player_entity),
                                   game.world.spatial_table.size)}

\* the end of AppData::handle_input: self.game_state.update_visibility
HandleInputUpdateVisibility ==
    /\ call.op \in KeyOperations
    /\ ~call.panic
    /\ \E updated \in GameUpdateVisibility(HereGame, visibility_grid, visibility_algorithm) :
           /\ visibility_grid' = updated.grid
           /\ stamped' = Append(stamped, updated.visible)
    /\ call' = [NoCall EXCEPT !.op = "update_visibility", !.input = call.op,
                              !.algorithm = visibility_algorithm]
    /\ UNCHANGED <<world, player_entity, ai_state, message_log, dungeon_level, inv,
                   visibility_algorithm, log_limit>>

\* a potion, the player, and a troll two cells away
AppTerrain ==
    << <<I("HealthPotion"), P, F, N("Troll")>> >>

\* the program after AppData::new, which ends with the first update of the
\* visibility grid
InitApp ==
    \E algorithm \in VisibilityAlgorithms :
        \E updated \in GameUpdateVisibility(
                            Fresh(AppTerrain),
                            VisibilityGridNew(Fresh(AppTerrain).world.spatial_table.size),
                            algorithm) :
            /\ InitGame(Fresh(AppTerrain))
            /\ visibility_grid = updated.grid
            /\ stamped = <<updated.visible>>
            /\ visibility_algorithm = algorithm
            /\ inv = NewInventory(0)

NextApp ==
    \/ HandleInputKey
    \/ HandleInputUpdateVisibility

SpecApp == InitApp /\ [][NextApp]_vars

\* the player of the armoury, with one item or a sword and an armour in the
\* pack, after the first update of the visibility grid
InitDescend ==
    \E game \in {OneItemInPack, EquipmentInPack}, algorithm \in VisibilityAlgorithms :
        \E updated \in GameUpdateVisibility(
                            game, VisibilityGridNew(game.world.spatial_table.size), algorithm) :
            /\ InitGame(game)
            /\ visibility_grid = updated.grid
            /\ stamped = <<updated.visible>>
            /\ visibility_algorithm = algorithm
            /\ inv = NewInventory(0)

\* the player equips what it carries, walks and goes down the stairs
NextDescend ==
    \/ MaybeMovePlayer
    \/ MaybePlayerUseItem
    \/ MaybePlayerDescend

SpecDescend == InitDescend /\ [][NextDescend]_vars

\* a game on a landing, with or without an orc
InitLanding ==
    \E terrain \in {LandingTerrain, QuietLandingTerrain} :
        InitOf(Fresh(terrain)) /\ inv = NewInventory(0)

\* the player walks, waits and tries the stairs
NextLanding ==
    \/ MaybeMovePlayer
    \/ WaitPlayer
    \/ MaybePlayerDescend

SpecLanding == InitLanding /\ [][NextLanding]_vars

\* a confused orc between the player and a troll
InitMelee == InitOf(ConfusedOrc) /\ inv = NewInventory(0)

\* the moves of the characters one by one, and the turns of the NPCs
NextMelee ==
    \/ WorldMaybeMoveCharacter
    \/ WaitPlayer

SpecMelee == InitMelee /\ [][NextMelee]_vars

\* a wounded player with a potion and a fireball scroll, next to a troll
InitHealth == InitOf(WoundedWithPotionAndScroll) /\ inv = NewInventory(0)

\* the operations that change hit points: the moves, which bump, the potion,
\* the fireball and its flight, and the level-ups of the health
NextHealth ==
    \/ WorldMaybeMoveCharacter
    \/ WorldMaybeUseItem
    \/ WorldMaybeUseItemAim
    \/ WorldMoveProjectiles
    \/ WorldLevelUpHealth

SpecHealth == InitHealth /\ [][NextHealth]_vars

\* a player with a potion in the pack that a troll is about to kill or has
\* killed
InitAfterlife ==
    \E game \in {DyingWithPotion, KilledWithPotion} : InitOf(game) /\ inv = NewInventory(0)

\* the operations GameState accepts of a player with a potion
NextAfterlife ==
    \/ MaybeMovePlayer
    \/ WaitPlayer
    \/ MaybePlayerUseItem

SpecAfterlife == InitAfterlife /\ [][NextAfterlife]_vars

\* a confused orc, an orc about to die, or a player next to the stairs
InitRoam ==
    \E game \in {ConfusedOrc, OrcWounded, EquipmentInPack} :
        InitOf(game) /\ inv = NewInventory(0)

\* the moves of the characters one by one, and the descents
NextRoam ==
    \/ WorldMaybeMoveCharacter
    \/ MaybePlayerDescend

SpecRoam == InitRoam /\ [][NextRoam]_vars

\* one or two projectiles in flight
InitFrames ==
    \E game \in {FireballLaunched, ConfusionLaunchedAtFloor, BothLaunched} :
        InitOf(game) /\ inv = NewInventory(0)

\* the frames of the animation and the player's actions that launch nothing
NextFrames ==
    \/ TickAnimations
    \/ WaitPlayer
    \/ MaybeMovePlayer
    \/ MaybePlayerGetItem
    \/ MaybePlayerUseItem

\* GameEventRoutine::handle calls tick_animations on a Frame event whenever
\* until_next_animation_tick has run out, and the frames keep coming
SpecFrames == InitFrames /\ [][NextFrames]_vars /\ WF_vars(TickAnimations)

\* two fireballs about to hit an orc
InitCrossfire == InitOf(Crossfire) /\ inv = NewInventory(0)

\* the moves of the characters one by one and of the projectiles
NextCrossfire ==
    \/ WorldMaybeMoveCharacter
    \/ WorldMoveProjectiles

SpecCrossfire == InitCrossfire /\ [][NextCrossfire]_vars

\* an NPC that is about to die on a potion or on a corpse
InitGrave ==
    \E game \in {OrcOnPotion, TrollOnCorpse} : InitOf(game) /\ inv = NewInventory(0)

\* the moves of the characters one by one
NextGrave == WorldMaybeMoveCharacter

SpecGrave == InitGrave /\ [][NextGrave]_vars

\* an orc that is about to die or has just died, and a troll behind it
InitCorpse ==
    \E game \in {OrcWounded, OrcKilled} : InitOf(game) /\ inv = NewInventory(0)

\* the turns of the player and, in them, of the NPCs
NextCorpse ==
    \/ MaybeMovePlayer
    \/ WaitPlayer

SpecCorpse == InitCorpse /\ [][NextCorpse]_vars

\* an orc and a troll that see the player
InitChase ==
    \E terrain \in {DetourTerrain, ChaseTerrain} :
        InitOf(Fresh(terrain)) /\ inv = NewInventory(0)

\* the turns of the player and, in them, of the NPCs
NextChase ==
    \/ MaybeMovePlayer
    \/ WaitPlayer

SpecChase == InitChase /\ [][NextChase]_vars

\* a troll or an orc that does not see the player
InitSight ==
    \E terrain \in {WallTerrain, FarTerrain} :
        InitOf(Fresh(terrain)) /\ inv = NewInventory(0)

\* the turns of the player and, in them, of the NPCs
NextSight ==
    \/ MaybeMovePlayer
    \/ WaitPlayer

SpecSight == InitSight /\ [][NextSight]_vars

\* a player with a fireball in flight and a scroll and a potion in the pack
InitFlight ==
    \E game \in {FireballLaunched, FireballLaunchedPotionNext} :
        InitOf(game) /\ inv = NewInventory(0)

\* what the player can do while a projectile is in flight, and the frames of
\* the animation
NextFlight ==
    \/ MaybePlayerUseItemAim
    \/ MaybePlayerDropItem
    \/ TickAnimations

SpecFlight == InitFlight /\ [][NextFlight]_vars

----------------------------------------------------------------------------
(* terrain::generate_dungeon.  The grid under construction is a function    *)
(* from the coordinates to Option<TerrainTile>; the draws of the rng are    *)
(* the rooms, the numbers of NPCs and items of a room and their types,      *)
(* while choose_multiple is taken to pick the first cells of floor of the   *)
(* room.                                                                    *)

\* None, in a cell of the grid under construction
NoTile == <<"None", "">>

MIN_ROOM_WIDTH == 5
MAX_ROOM_WIDTH == 10
MIN_ROOM_HEIGHT == 5
MAX_ROOM_HEIGHT == 8

Min(a, b) == IF a < b THEN a ELSE b

\* Room::choose: the rooms the rng can draw within the bounds
RoomChoose(bounds) ==
    UNION {{[top_left |-> Coord(left, top), size |-> [width |-> width, height |-> height]] :
               left \in 0..(bounds.width - width - 1),
               top \in 0..(bounds.height - height - 1)} :
           width \in MIN_ROOM_WIDTH..Min(MAX_ROOM_WIDTH, MIN_ROOM_WIDTH + MaxRoomGrowth),
           height \in MIN_ROOM_HEIGHT..Min(MAX_ROOM_HEIGHT, MIN_ROOM_HEIGHT + MaxRoomGrowth)}

\* Room::centre
RoomCentre(room) ==
    Add(room.top_left, Coord(room.size.width \div 2, room.size.height \div 2))

\* Room::coords: the coordinates of the room in row major order
RoomCoords(room) ==
    [i \in 1..(room.size.width * room.size.height) |->
        Add(room.top_left, Coord((i - 1) % room.size.width, (i - 1) \div room.size.width))]

\* Room::only_intersects_empty
OnlyIntersectsEmpty(room, grid) ==
    \A i \in DOMAIN RoomCoords(room) : grid[RoomCoords(room)[i]] = NoTile

\* Room::carve_out
CarveOut(room, grid) ==
    LET inside == {RoomCoords(room)[i] : i \in DOMAIN RoomCoords(room)}
    IN  [coord \in DOMAIN grid |->
            IF coord \in inside
            THEN IF coord.x = room.top_left.x \/ coord.y = room.top_left.y THEN W ELSE F
            ELSE grid[coord]]

\* the first cells of floor of the room, one for every tile to place
FirstFloors(room, tiles, grid) ==
    LET floors == SelectSeq(RoomCoords(room), LAMBDA coord : grid[coord] = F)
    IN  SubSeq(floors, 1, Min(Len(tiles), Len(floors)))

\* Room::place_npcs and Room::place_items: the tiles drawn are put on cells of
\* floor of the room
PlaceTiles(room, tiles, grid) ==
    LET chosen == FirstFloors(room, tiles, grid)
    IN  [coord \in DOMAIN grid |->
            IF \E i \in DOMAIN chosen : chosen[i] = coord
            THEN tiles[CHOOSE i \in DOMAIN chosen : chosen[i] = coord]
            ELSE grid[coord]]

\* carve_corridor: the row of the start up to and including the column of
\* the end, then the column of the end between the two rows, the larger row
\* excluded
CarveCorridor(start, end, grid) ==
    LET row == {Coord(x, start.y) : x \in Min(start.x, end.x)..Max2(start.x, end.x)}
        column == {Coord(end.x, y) : y \in Min(start.y, end.y)..(Max2(start.y, end.y) - 1)}
    IN  [coord \in DOMAIN grid |->
            IF coord \in row \cup column /\ grid[coord] \in {NoTile, W} THEN F
            ELSE grid[coord]]

\* make_npc_probability_distribution: the types with a positive weight
NpcTypesOfLevel(level) == IF level > 0 THEN {"Orc", "Troll"} ELSE {"Orc"}

\* the sequences of at most MaxPlaced tiles of the kinds
TilesDrawn(kinds) == UNION {[1..n -> kinds] : n \in 0..MaxPlaced}

\* one attempt of generate_dungeon to add the room: the grids and the lists
\* of room centres it can leave
AttemptRoom(dungeon, room, level) ==
    IF ~OnlyIntersectsEmpty(room, dungeon.grid) THEN {dungeon}
    ELSE LET carved == CarveOut(room, dungeon.grid)
             with_player == IF dungeon.room_centres = <<>>
                            THEN [carved EXCEPT ![RoomCentre(room)] = P]
                            ELSE carved
         IN  {[grid |-> PlaceTiles(room, items, PlaceTiles(room, npcs, with_player)),
               room_centres |-> Append(dungeon.room_centres, RoomCentre(room))] :
                 npcs \in TilesDrawn({N(npc_type) : npc_type \in NpcTypesOfLevel(level)}),
                 items \in TilesDrawn({I(item_type) : item_type \in ItemTypes})}

\* the loop over the attempts
RECURSIVE Attempts(_, _, _, _)
Attempts(dungeons, size, level, attempts) ==
    IF attempts = 0 THEN dungeons
    ELSE Attempts(UNION {AttemptRoom(dungeon, room, level) :
                            dungeon \in dungeons, room \in RoomChoose(size)},
                  size, level, attempts - 1)

\* the corridors between the centres of the rooms, in the order of placement
RECURSIVE Corridors(_, _)
Corridors(room_centres, grid) ==
    IF Len(room_centres) < 2 THEN grid
    ELSE Corridors(Tail(room_centres),
                   CarveCorridor(room_centres[1], room_centres[2], grid))

\* the end of generate_dungeon: the corridors, the stairs on the centre of
\* the last room placed, and walls where nothing was carved
FinishDungeon(dungeon) ==
    LET corridors == Corridors(dungeon.room_centres, dungeon.grid)
        last == dungeon.room_centres[Len(dungeon.room_centres)]
        stairs == [corridors EXCEPT ![last] = S]
    IN  [coord \in DOMAIN stairs |-> IF stairs[coord] = NoTile THEN W ELSE stairs[coord]]

\* terrain::generate_dungeon: the grids it can return
GenerateDungeon(size, level) ==
    {FinishDungeon(dungeon) :
        dungeon \in Attempts({[grid |-> [coord \in CoordsOf(size) |-> NoTile],
                               room_centres |-> <<>>]},
                             size, level, MaxAttempts)}

\* the size of the grid: the smallest in which Room::choose can draw every
\* room of the model, and two rooms fit side by side
DungeonSize ==
    [width |-> 2 * MIN_ROOM_WIDTH + MaxRoomGrowth + 1,
     height |-> MIN_ROOM_HEIGHT + MaxRoomGrowth + 1]

\* the call of generate_dungeon for a level
GenerateDungeonCall ==
    \E level \in 1..MaxDungeonLevel :
        \E terrain \in GenerateDungeon(DungeonSize, level) :
            /\ call.op = "new"
            /\ call' = [NoCall EXCEPT !.op = "generate_dungeon", !.terrain = terrain]
            /\ UNCHANGED <<world, player_entity, ai_state, message_log, dungeon_level, inv,
                           visibility_grid, stamped, visibility_algorithm, log_limit>>

InitDungeon == InitOf(Fresh(SquareTerrain)) /\ inv = NewInventory(0)

NextDungeon == GenerateDungeonCall

SpecDungeon == InitDungeon /\ [][NextDungeon]_vars

----------------------------------------------------------------------------
(* Properties of the World operations, checked under SpecWorld, SpecCombat, *)
(* SpecConfused and SpecFull                                                *)

\* the (coord, layer) slots of the spatial grid that hold the entity
SlotsOf(table, entity) ==
    {slot \in CoordsOf(table.size) \X Layers : table.spatial_grid[slot[1]][slot[2]] = entity}

\* the entities the spatial table knows, by either of its two indexes
Placed(table) ==
    (DOMAIN table.location_component)
    \cup ({table.spatial_grid[slot[1]][slot[2]] : slot \in CoordsOf(table.size) \X Layers}
          \ {NONE})

\* what the last call noted when it was a maybe_move_character that returned
Moved == call.op = "maybe_move_character" /\ ~call.panic

\* the cell the last maybe_move_character aimed the mover at
TargetOf(note) == Add(note.from, DirectionCoord(note.direction))

C2_NetDamageClaimed ==
    (Moved /\ call.note.attack) =>
        LET before == call.note.victim_hit_points
            after == world.components.hit_points[call.note.occupant].current
            net == Max2(0, call.note.gross - call.note.reduction)
        IN  /\ after = Max2(0, before - net)
            /\ call.note.reduction >= call.note.gross =>
                   call.note.outcome = "Dodge" /\ after = before

\* C3: a bump attack that leaves its victim without hit points turns the
\* victim into its corpse (Player to PlayerCorpse, Npc(k) to NpcCorpse(k)) on
\* the object layer of the cell it stood on; one that leaves it hit points
\* leaves its tile, its layer and its cell as they were.
C3_DeathTransition ==
    (Moved /\ call.note.attack) =>
        LET victim == call.note.occupant
            tile == world.components.tile[victim]
            was == call.note.victim_tile
            table == world.spatial_table
        IN  /\ HasCoord(table, victim)
            /\ CoordOf(table, victim) = TargetOf(call.note)
            /\ was[1] \in {"Player", "Npc"}
            /\ IF world.components.hit_points[victim].current = 0
               THEN /\ tile = Tile(IF was[1] = "Player" THEN "PlayerCorpse" ELSE "NpcCorpse",
                                   was[2])
                    /\ LayerOf(table, victim) = "object"
                    /\ call.note.outcome = "Kill"
               ELSE /\ tile = was
                    /\ LayerOf(table, victim) = "character"
                    /\ call.note.outcome \in {"Hit", "Dodge"}

\* C3 witness: a bump attack has killed its victim
C3_Witness ==
    /\ Moved
    /\ call.note.attack
    /\ call.note.victim_hit_points > 0
    /\ world.components.hit_points[call.note.occupant].current = 0

\* C4: a maybe_move_character whose effective target cell (after the random
\* direction of a confused mover) lies outside the grid or holds a feature
\* leaves the mover on its cell.
C4_BlockedMoveStays ==
    LET table == world.spatial_table
        target == TargetOf(call.note)
    IN  (Moved /\ (~IsValid(target, table.size) \/ LayersAt(table, target).feature # NONE)) =>
            /\ HasCoord(table, call.entity)
            /\ CoordOf(table, call.entity) = call.note.from

\* C4 witness: a confused mover has been sent in a random direction that
\* leads off the grid
C4_Witness ==
    /\ Moved
    /\ call.note.countdown # NONE
    /\ call.note.direction # call.direction
    /\ ~IsValid(TargetOf(call.note), world.spatial_table.size)

\* the messages a step appends to the log
Appended == SubSeq(message_log', Len(message_log) + 1, Len(message_log'))

\* the messages of a sequence that carry one of the tags
Tagged(messages, tags) == SelectSeq(messages, LAMBDA m : m[1] \in tags)

\* the step is a call of the operation that returned
Calls(op) == call'.op = op /\ ~call'.panic

\* C5: a maybe_move_character whose target cell holds a character leaves the
\* mover where it is, also when the occupant dies.  When exactly one of mover
\* and occupant is an NPC it resolves exactly one bump attack: one combat
\* message, and no hit points but the occupant's change (an occupant that
\* dies takes the object of its cell, a corpse with its hit points maybe, out
\* of the world).  Otherwise it changes no hit points and no placement and
\* appends no combat message.
C5_OccupiedTarget ==
    [][(Calls("maybe_move_character") /\ call'.note.occupant # NONE) =>
          LET mover == call'.entity
              occupant == call'.note.occupant
              hit_points == world.components.hit_points
          IN  /\ LayersAt(world.spatial_table, TargetOf(call'.note)).character = occupant
              /\ world'.spatial_table.location_component[mover]
                     = world.spatial_table.location_component[mover]
              /\ IF IsNpc(world, mover) # IsNpc(world, occupant)
                 THEN /\ call'.note.attack
                      /\ Len(Tagged(Appended, CombatMessageTags)) = 1
                      /\ \A e \in DOMAIN hit_points \ {occupant} :
                             \/ /\ Has(world'.components.hit_points, e)
                                /\ world'.components.hit_points[e] = hit_points[e]
                             \/ /\ world'.components.hit_points[occupant].current = 0
                                /\ e = LayersAt(world.spatial_table,
                                                TargetOf(call'.note)).object
                 ELSE /\ ~call'.note.attack
                      /\ world'.components.hit_points = hit_points
                      /\ world'.spatial_table = world.spatial_table
                      /\ Tagged(Appended, CombatMessageTags) = <<>>]_vars

\* C5 witness: an NPC has been moved into the cell of another NPC
C5_Witness ==
    /\ Moved
    /\ call.note.occupant # NONE
    /\ IsNpc(world, call.entity)
    /\ IsNpc(world, call.note.occupant)
    /\ ~call.note.attack

\* C7 as stated: the call that brings the countdown of a confused character to
\* 0 clears it.
C7_ClearedOnReachingZero ==
    (Moved /\ call.note.countdown = 1) =>
        ~Has(world.components.confusion_countdown, call.entity)

\* C7 as the code has it: a maybe_move_character that finds a positive
\* countdown on the mover decreases it by 1 and says nothing of confusion; one
\* that finds the countdown at 0 removes it and, for an NPC, appends exactly
\* one NpcIsNoLongerConfused; one that finds no countdown uses the requested
\* direction.  No other countdown changes.  A countdown set to d is therefore
\* found by d + 1 calls, each of which uses the direction the rng draws.
C7_CountdownAsCoded ==
    [][Calls("maybe_move_character") =>
          LET mover == call'.entity
              before == world.components.confusion_countdown
              after == world'.components.confusion_countdown
              ended == Tagged(Appended, {"NpcIsNoLongerConfused"})
          IN  /\ \A e \in (DOMAIN before \cup DOMAIN after) \ {mover} :
                     Has(before, e) /\ Has(after, e) /\ after[e] = before[e]
              /\ IF ~Has(before, mover)
                 THEN /\ ~Has(after, mover)
                      /\ ended = <<>>
                      /\ call'.note.countdown = NONE
                      /\ call'.note.direction = call'.direction
                 ELSE /\ call'.note.countdown = before[mover]
                      /\ IF before[mover] > 0
                         THEN /\ Has(after, mover)
                              /\ after[mover] = before[mover] - 1
                              /\ ended = <<>>
                         ELSE /\ ~Has(after, mover)
                              /\ ended = IF IsNpc(world, mover)
                                         THEN <<Msg("NpcIsNoLongerConfused",
                                                    world.components.npc_type[mover])>>
                                         ELSE <<>>]_vars

\* C7 witness: the call that found the countdown at 0 and removed it has moved
\* the character in a direction that was not the requested one
C7_Witness ==
    /\ Moved
    /\ call.note.countdown = 0
    /\ ~Has(world.components.confusion_countdown, call.entity)
    /\ call.note.direction # call.direction
    /\ call.note.from # CoordOf(world.spatial_table, call.entity)

\* C8: every maybe_get_item appends exactly one message and has the one
\* outcome its cell and inventory select.  An item on the cell and a free
\* slot: Ok, PlayerGets, the item leaves the spatial table and takes a slot
\* that was free.  An item and no free slot: Err, PlayerInventoryIsFull.  No
\* item on the object layer of the cell: Err, NoItemUnderPlayer.
C8_GetItemOutcomes ==
    [][Calls("maybe_get_item") =>
          LET character == call'.entity
              table == world.spatial_table
              coord == CoordOf(table, character)
              object == LayersAt(table, coord).object
              item_here == object # NONE /\ Has(world.components.item, object)
              inventory == world.components.inventory[character]
          IN  /\ Len(Appended) = 1
              /\ IF item_here /\ FreeSlots(inventory) # {}
                 THEN /\ call'.ret = "Ok"
                      /\ Appended[1] = Msg("PlayerGets", world.components.item[object])
                      /\ ~HasCoord(world'.spatial_table, object)
                      /\ LayersAt(world'.spatial_table, coord).object = NONE
                      /\ \E i \in FreeSlots(inventory) :
                             world'.components.inventory[character]
                                 = [inventory EXCEPT !.slots[i] = object]
                 ELSE /\ call'.ret = "Err"
                      /\ Appended[1] = IF item_here THEN Msg("PlayerInventoryIsFull", "")
                                       ELSE Msg("NoItemUnderPlayer", "")]_vars

\* C8 witness: an item has been picked up into an inventory that had items
C8_Witness ==
    /\ call.op = "maybe_get_item"
    /\ call.ret = "Ok"
    /\ message_log[Len(message_log)][1] = "PlayerGets"
    /\ FreeSlots(world.components.inventory[call.entity]) = {}

\* C9: a maybe_get_item of a character whose inventory has no free slot, on
\* a cell that holds an item, fails and changes nothing but the log: the
\* inventory keeps every entity, the item stays on the object layer of the
\* cell, and the world as a whole is as it was.
C9_FullInventoryGetFails ==
    [][(/\ call'.op = "maybe_get_item"
        /\ FreeSlots(world.components.inventory[call'.entity]) = {}
        /\ LET object == LayersAt(world.spatial_table,
                                  CoordOf(world.spatial_table, call'.entity)).object
           IN  object # NONE /\ Has(world.components.item, object)) =>
          /\ ~call'.panic
          /\ call'.ret = "Err"
          /\ world' = world
          /\ message_log' = Append(message_log, Msg("PlayerInventoryIsFull", ""))]_vars

\* C9 witness: a pickup has failed on a cell with an item for a character
\* whose ten slots are taken
C9_Witness ==
    LET table == world.spatial_table
        object == LayersAt(table, CoordOf(table, call.entity)).object
    IN  /\ call.op = "maybe_get_item"
        /\ call.ret = "Err"
        /\ object # NONE
        /\ Has(world.components.item, object)
        /\ \A i \in 1..INVENTORY_CAPACITY :
               world.components.inventory[call.entity].slots[i] # NONE

----------------------------------------------------------------------------
(* Properties of the Inventory, checked under SpecInventory *)

\* C10: an insert into an inventory with a free slot puts the item into the
\* free slot of the lowest index and leaves every other slot as it was; a
\* remove of that slot from the result returns the item and gives back the
\* inventory as it was before the insert; and no insert, remove or get
\* changes the number of slots.
C10_InsertRemoveRoundTrip ==
    [][/\ Len(inv'.slots) = Len(inv.slots)
       /\ (call'.op = "Inventory::insert" /\ FreeSlots(inv) # {}) =>
              LET item == call'.entity
                  i == CHOOSE i \in FreeSlots(inv) : \A j \in FreeSlots(inv) : i <= j
              IN  /\ call'.ret = "Ok"
                  /\ inv'.slots[i] = item
                  /\ \A j \in 1..Len(inv.slots) : j # i => inv'.slots[j] = inv.slots[j]
                  /\ InventoryRemove(inv', i - 1)
                         = [ok |-> TRUE, item |-> item, inventory |-> inv]]_vars

\* C10 witness: an insert has put its item into a free slot below an occupied
\* one, which a remove had emptied
C10_Witness ==
    /\ call.op = "Inventory::insert"
    /\ call.ret = "Ok"
    /\ \E i, j \in 1..Len(inv.slots) :
           i < j /\ inv.slots[i] = call.entity /\ inv.slots[j] # NONE

----------------------------------------------------------------------------
(* Properties of the GameState operations, checked under Spec *)

\* C6 as stated: once the player is not alive (its entity is not on the
\* character layer), no GameState operation makes it alive again.
C6_DeathIsTerminal ==
    [][~IsPlayerAlive(world, player_entity) => ~IsPlayerAlive(world', player_entity')]_vars

\* the inventory slots of a world, each as <<holder, position>>
InventorySlots(w) ==
    UNION {{<<holder, i>> : i \in 1..Len(w.components.inventory[holder].slots)} :
              holder \in DOMAIN w.components.inventory}

\* the slots of a world that refer to the entity
SlotsHolding(w, entity) ==
    {slot \in InventorySlots(w) : w.components.inventory[slot[1]].slots[slot[2]] = entity}

\* C11: in every state the GameState operations reach (descents among them),
\* an entity an inventory slot refers to has no placement in the spatial
\* table, by either of its indexes; an item entity that is placed is referred
\* to by no slot; and no entity is referred to by more than one slot.
C11_HeldItemsAreUnplaced ==
    /\ \A slot \in InventorySlots(world) :
           LET entity == world.components.inventory[slot[1]].slots[slot[2]]
           IN  entity # NONE =>
                   /\ entity \notin Placed(world.spatial_table)
                   /\ SlotsHolding(world, entity) = {slot}
    /\ \A entity \in DOMAIN world.components.item :
           HasCoord(world.spatial_table, entity) => SlotsHolding(world, entity) = {}

\* C11 witness: on the second dungeon level the player, who brought an item
\* down, has picked up the one that lay there
C11_Witness ==
    /\ dungeon_level = 2
    /\ call.op = "maybe_player_get_item"
    /\ call.ret = "Ok"
    /\ \E s1, s2 \in InventorySlots(world) :
           /\ s1 # s2
           /\ world.components.inventory[s1[1]].slots[s1[2]] # NONE
           /\ world.components.inventory[s2[1]].slots[s2[2]] # NONE

----------------------------------------------------------------------------
(* Properties of the items a character carries, checked under SpecPotion,   *)
(* SpecScroll and SpecCarry                                                 *)

\* the entity in the slot of the index in the inventory of the character
InSlot(w, character, index) == w.components.inventory[character].slots[index + 1]

\* nothing of the entity is left in the world
Destroyed(w, entity) ==
    /\ \A name \in ComponentNames : ~Has(w.components[name], entity)
    /\ entity \notin Placed(w.spatial_table)
    /\ SlotsHolding(w, entity) = {}
    /\ entity \notin w.entity_allocator.live

\* C12 as stated: the potion a maybe_use_item drinks and the scroll a
\* successful maybe_use_item_aim reads are destroyed: after the call the item
\* entity has no component, no placement and no slot, and its identifier is
\* free.
C12_ConsumedItemDestroyed ==
    [][(\/ /\ Calls("maybe_use_item")
           /\ call'.ret = "Immediate"
           /\ InSlot(world', call'.entity, call'.index) = NONE
        \/ /\ Calls("maybe_use_item_aim")
           /\ call'.ret = "Ok") =>
          Destroyed(world', InSlot(world, call'.entity, call'.index))]_vars

\* C13: a maybe_use_item on a slot that holds a health potion returns
\* Immediate, sets the current hit points of the character to
\* min(max, current + 5), empties the slot, and leaves the other slots, the
\* maximum and the equipment indices as they were; on an empty slot it
\* returns failure, appends NoItemInInventorySlot and leaves the world as it
\* was.
C13_UsePotionOrEmptySlot ==
    [][Calls("maybe_use_item") =>
          LET character == call'.entity
              item == InSlot(world, character, call'.index)
              hit_points == world.components.hit_points[character]
              inventory == world.components.inventory[character]
          IN  IF item = NONE
              THEN /\ call'.ret = "Err"
                   /\ world' = world
                   /\ message_log' = Append(message_log, Msg("NoItemInInventorySlot", ""))
              ELSE world.components.item[item] = "HealthPotion" =>
                       /\ call'.ret = "Immediate"
                       /\ world'.components.hit_points[character]
                              = [current |-> IF hit_points.current + 5 <= hit_points.max
                                             THEN hit_points.current + 5
                                             ELSE hit_points.max,
                                 max |-> hit_points.max]
                       /\ world'.components.inventory[character]
                              = [inventory EXCEPT !.slots[call'.index + 1] = NONE]
                       /\ world'.components.equipment_held_inventory_index
                              = world.components.equipment_held_inventory_index
                       /\ world'.components.equipment_worn_inventory_index
                              = world.components.equipment_worn_inventory_index]_vars

\* C13 witness: a player who holds a sword in the hand has drunk a potion that
\* left the hit points below the maximum
C13_Witness ==
    /\ call.op = "maybe_use_item"
    /\ call.ret = "Immediate"
    /\ InSlot(world, call.entity, call.index) = NONE
    /\ Has(world.components.equipment_held_inventory_index, call.entity)
    /\ world.components.hit_points[call.entity].current
           < world.components.hit_points[call.entity].max

\* the slot of the index in the inventory of the character holds a scroll
HoldsScroll(w, character, index) ==
    /\ InSlot(w, character, index) # NONE
    /\ w.components.item[InSlot(w, character, index)] \in {"FireballScroll", "ConfusionScroll"}

\* C14 as stated: a maybe_use_item that returns Aim leaves the world, the
\* scroll in its slot included, as it was; a maybe_use_item_aim of a scroll at
\* the cell of the caster returns failure and leaves the world as it was; at
\* any other target it returns success, empties the slot of the scroll, and
\* creates exactly one projectile, placed on the projectile layer of the cell
\* of the caster.
C14_ScrollConsumedByAim ==
    [][LET caster == call'.entity
           inventory == world.components.inventory[caster]
           launched == DOMAIN world'.components.projectile \ DOMAIN world.components.projectile
       IN  /\ (Calls("maybe_use_item") /\ call'.ret = "Aim") =>
                  /\ HoldsScroll(world, caster, call'.index)
                  /\ world' = world
           /\ (call'.op = "maybe_use_item_aim" /\ HoldsScroll(world, caster, call'.index)) =>
                  IF call'.target = CoordOf(world.spatial_table, caster)
                  THEN /\ ~call'.panic
                       /\ call'.ret = "Err"
                       /\ world' = world
                  ELSE /\ ~call'.panic
                       /\ call'.ret = "Ok"
                       /\ world'.components.inventory[caster]
                              = [inventory EXCEPT !.slots[call'.index + 1] = NONE]
                       /\ Cardinality(launched) = 1
                       /\ \A projectile \in launched :
                              world'.spatial_table.location_component[projectile]
                                  = [coord |-> CoordOf(world.spatial_table, caster),
                                     layer |-> "projectile"]]_vars

\* C15: a maybe_drop_item of a character on a cell whose object layer is
\* taken fails with NoSpaceToDropItem; on a cell with a free object layer and
\* with an empty slot it fails with NoItemInInventorySlot; both failures leave
\* the world (the inventory, the equipment indices and the spatial table) as
\* it was.  Otherwise it succeeds: the item leaves its slot, the other slots
\* stay, and the item is placed on the object layer of the cell of the
\* character.
C15_DropItemOutcomes ==
    [][call'.op = "maybe_drop_item" =>
          LET character == call'.entity
              inventory == world.components.inventory[character]
              item == InSlot(world, character, call'.index)
              coord == CoordOf(world.spatial_table, character)
          IN  /\ ~call'.panic
              /\ IF LayersAt(world.spatial_table, coord).object # NONE
                 THEN /\ call'.ret = "Err"
                      /\ message_log' = Append(message_log, Msg("NoSpaceToDropItem", ""))
                      /\ world' = world
                 ELSE IF item = NONE
                 THEN /\ call'.ret = "Err"
                      /\ message_log' = Append(message_log, Msg("NoItemInInventorySlot", ""))
                      /\ world' = world
                 ELSE /\ call'.ret = "Ok"
                      /\ world'.components.inventory[character]
                             = [inventory EXCEPT !.slots[call'.index + 1] = NONE]
                      /\ world'.spatial_table.location_component[item]
                             = [coord |-> coord, layer |-> "object"]
                      /\ LayersAt(world'.spatial_table, coord).object = item
                      /\ CoordOf(world'.spatial_table, character) = coord]_vars

\* C15 witness: an item has been dropped and lies under the character, whose
\* other slot still holds an item
C15_Witness ==
    /\ call.op = "maybe_drop_item"
    /\ call.ret = "Ok"
    /\ InSlot(world, call.entity, call.index) = NONE
    /\ LayersAt(world.spatial_table, CoordOf(world.spatial_table, call.entity)).object
           \in DOMAIN world.components.item
    /\ \E i \in Indices : InSlot(world, call.entity, i) # NONE

\* the equipment index of the table, where it is present, refers to an
\* occupied slot of the inventory of its character with an item of the types
Equips(w, table, item_types) ==
    \A character \in DOMAIN table :
        /\ Has(w.components.inventory, character)
        /\ InventoryGet(w.components.inventory[character], table[character]).ok
        /\ Has(w.components.item, InSlot(w, character, table[character]))
        /\ w.components.item[InSlot(w, character, table[character])] \in item_types

\* C16: in every state the player reaches by moving, picking up, using and
\* dropping items and descending, the held-equipment index, when present,
\* refers to an occupied slot that holds a Sword or a Staff, and the
\* worn-equipment index, when present, to an occupied slot that holds an
\* Armour or a Robe.
C16_EquipmentIndicesValid ==
    /\ Equips(world, world.components.equipment_held_inventory_index, {"Sword", "Staff"})
    /\ Equips(world, world.components.equipment_worn_inventory_index, {"Armour", "Robe"})

\* C16 witness: the player has descended with a sword in the hand and an
\* armour on
C16_Witness ==
    /\ call.op = "maybe_player_descend"
    /\ dungeon_level = 2
    /\ Has(world.components.equipment_held_inventory_index, player_entity)
    /\ Has(world.components.equipment_worn_inventory_index, player_entity)
    /\ world.components.item[InSlot(world, player_entity,
           world.components.equipment_held_inventory_index[player_entity])] = "Sword"

----------------------------------------------------------------------------
(* Properties of the projectiles, checked under SpecScroll *)

\* the cell the next step of the trajectory of a projectile leads to
NextCell(w, projectile) ==
    Add(CoordOf(w.spatial_table, projectile),
        DirectionCoord(Head(w.components.trajectory[projectile])))

\* the projectile has made the next step of its trajectory
Advanced(w, after, projectile) ==
    /\ Has(after.components.trajectory, projectile)
    /\ after.components.trajectory[projectile] = Tail(w.components.trajectory[projectile])
    /\ HasCoord(after.spatial_table, projectile)
    /\ after.spatial_table.location_component[projectile]
           = [coord |-> NextCell(w, projectile), layer |-> "projectile"]

\* C17 as stated: a maybe_use_item_aim of a fireball scroll puts a fireball
\* with the damage max(intelligence, 0) of the caster on the cell of the
\* caster, with the cardinal steps of the line to the target as its
\* trajectory.  Every move_projectiles moves a fireball whose next cell has
\* neither a feature nor a character exactly one step, to that cell; when the
\* next cell holds a character the fireball is removed and the current hit
\* points of the character decrease by min(current, damage).
C17_FireballFlight ==
    [][/\ (/\ Calls("maybe_use_item_aim")
            /\ call'.ret = "Ok"
            /\ world.components.item[InSlot(world, call'.entity, call'.index)]
                   = "FireballScroll") =>
              LET caster == call'.entity
                  from == CoordOf(world.spatial_table, caster)
                  intelligence == world.components.intelligence[caster]
              IN  \E fireball \in DOMAIN world'.components.projectile
                                      \ DOMAIN world.components.projectile :
                      /\ world'.components.projectile[fireball]
                             = Fireball(IF intelligence < 0 THEN 0 ELSE intelligence)
                      /\ world'.spatial_table.location_component[fireball]
                             = [coord |-> from, layer |-> "projectile"]
                      /\ world'.components.trajectory[fireball]
                             = CardinalStepIter(Sub(call'.target, from))
       /\ Calls("move_projectiles") =>
              \A fireball \in DOMAIN world.components.trajectory :
                  (/\ world.components.projectile[fireball].kind = "Fireball"
                   /\ world.components.trajectory[fireball] # <<>>
                   /\ LayersAt(world.spatial_table, NextCell(world, fireball)).feature = NONE) =>
                      LET victim == LayersAt(world.spatial_table,
                                             NextCell(world, fireball)).character
                          damage == world.components.projectile[fireball].amount
                          current == world.components.hit_points[victim].current
                      IN  IF victim = NONE
                          THEN Advanced(world, world', fireball)
                          ELSE /\ Destroyed(world', fireball)
                               /\ world'.components.hit_points[victim].current
                                      = current - (IF damage < current THEN damage
                                                   ELSE current)]_vars

\* C18 as stated: after a move_projectiles every projectile that still exists
\* has made exactly one step of its trajectory in the call and is on a cell
\* with no feature and no character; a projectile whose next cell has a
\* feature, or whose trajectory has no step left, is destroyed: no component
\* and no placement of it is left.
C18_ProjectilesStepOrVanish ==
    [][Calls("move_projectiles") =>
          /\ \A projectile \in DOMAIN world'.components.trajectory :
                 /\ Has(world.components.trajectory, projectile)
                 /\ world.components.trajectory[projectile] # <<>>
                 /\ Advanced(world, world', projectile)
                 /\ LET layers == LayersAt(world'.spatial_table,
                                           CoordOf(world'.spatial_table, projectile))
                    IN  layers.feature = NONE /\ layers.character = NONE
          /\ \A projectile \in DOMAIN world.components.trajectory :
                 (\/ world.components.trajectory[projectile] = <<>>
                  \/ LayersAt(world.spatial_table, NextCell(world, projectile)).feature
                         # NONE) =>
                     Destroyed(world', projectile)]_vars

----------------------------------------------------------------------------
(* Properties of the VisibilityGrid, checked under SpecVisibility *)

\* the coordinates cell_visibility is asked about: the grid and a margin
ProbedCoords ==
    {Coord(x, y) : x \in (-1)..world.spatial_table.size.width,
                   y \in (-1)..world.spatial_table.size.height}

\* C19: right after an update the cell of its origin is Currently; a
\* coordinate no update has marked, in the grid or outside, is Never; a cell
\* the update before the last marked and the last did not is Previously; after
\* an Omniscient update every cell of the grid is Currently.
C19_VisibilityEpochs ==
    LET n == Len(stamped)
    IN  /\ call.op = "VisibilityGrid::update" =>
               CellVisibility(visibility_grid, call.target) = "Currently"
        /\ \A coord \in ProbedCoords :
               (\A i \in 1..n : coord \notin stamped[i]) =>
                   CellVisibility(visibility_grid, coord) = "Never"
        /\ n >= 2 =>
               \A coord \in stamped[n - 1] \ stamped[n] :
                   CellVisibility(visibility_grid, coord) = "Previously"
        /\ (call.op = "VisibilityGrid::update" /\ call.algorithm = "Omniscient") =>
               \A coord \in DOMAIN visibility_grid.grid :
                   CellVisibility(visibility_grid, coord) = "Currently"

\* two Shadowcast updates: a cell the first marked and the second did not,
\* and a cell of the grid neither marked
C19_Witness ==
    /\ Len(stamped) = 2
    /\ call.op = "VisibilityGrid::update"
    /\ call.algorithm = "Shadowcast"
    /\ stamped[1] \ stamped[2] # {}
    /\ DOMAIN visibility_grid.grid \ (stamped[1] \cup stamped[2]) # {}

----------------------------------------------------------------------------
(* The failures of the item operations, checked under SpecWorld *)

FailureTags ==
    {"PlayerInventoryIsFull", "NoItemUnderPlayer", "NoItemInInventorySlot", "NoSpaceToDropItem"}

\* C20 as stated: a maybe_get_item with no item underfoot or with no free
\* slot, a maybe_use_item, maybe_drop_item or maybe_use_item_aim on an empty
\* slot, a maybe_drop_item on a cell whose object layer is taken, and a
\* maybe_use_item_aim at the cell of the caster all return Err without a
\* panic and append exactly one message, which names the failure.
C20_ExpectedFailuresAreReported ==
    [][LET character == call'.entity
           coord == CoordOf(world.spatial_table, character)
           object == LayersAt(world.spatial_table, coord).object
           slots == world.components.inventory[character].slots
           empty_slot == InSlot(world, character, call'.index) = NONE
       IN  (\/ /\ call'.op = "maybe_get_item"
                /\ \/ object = NONE
                   \/ ~Has(world.components.item, object)
                   \/ \A i \in 1..Len(slots) : slots[i] # NONE
            \/ call'.op = "maybe_use_item" /\ empty_slot
            \/ call'.op = "maybe_drop_item" /\ (empty_slot \/ object # NONE)
            \/ call'.op = "maybe_use_item_aim" /\ (empty_slot \/ call'.target = coord)) =>
               /\ ~call'.panic
               /\ call'.ret = "Err"
               /\ Len(Appended) = 1
               /\ Appended[1][1] \in FailureTags]_vars

----------------------------------------------------------------------------
(* Properties of the turns of GameState, checked under Spec *)

\* the component of an entity, NONE when it has none
ComponentOf(table, entity) == IF Has(table, entity) THEN table[entity] ELSE NONE

\* where the spatial table has the entity, NONE when it has it nowhere
LocationOf(table, entity) == ComponentOf(table.location_component, entity)

\* no NPC has moved, no NPC has other hit points or another confusion
\* countdown, and the hit points of the player are what they were
NpcsAndPlayerAsBefore ==
    /\ \A npc \in DOMAIN world.components.npc_type :
           /\ LocationOf(world'.spatial_table, npc) = LocationOf(world.spatial_table, npc)
           /\ ComponentOf(world'.components.hit_points, npc)
                  = ComponentOf(world.components.hit_points, npc)
           /\ ComponentOf(world'.components.confusion_countdown, npc)
                  = ComponentOf(world.components.confusion_countdown, npc)
    /\ DOMAIN world'.components.npc_type = DOMAIN world.components.npc_type
    /\ world'.components.hit_points[player_entity'] = world.components.hit_points[player_entity]

\* C21: a maybe_player_get_item, maybe_player_use_item or
\* maybe_player_drop_item in which the World operation fails, and a
\* maybe_player_use_item that returns Aim, run no ai_turn: the coordinate, the
\* hit points and the confusion countdown of every NPC, the hit points of the
\* player and the agent table are after the call what they were before.
C21_NoTurnNoAiTurn ==
    [][(\/ /\ \/ Calls("maybe_player_get_item")
               \/ Calls("maybe_player_use_item")
               \/ Calls("maybe_player_drop_item")
            /\ call'.ret = "Err"
        \/ Calls("maybe_player_use_item") /\ call'.ret = "Aim") =>
          /\ NpcsAndPlayerAsBefore
          /\ ai_state' = ai_state
          /\ player_entity' = player_entity]_vars

\* C21 witness: the player, with a living NPC at its side, has been told to
\* aim the scroll it tried to use
C21_Witness ==
    /\ call.op = "maybe_player_use_item"
    /\ call.ret = "Aim"
    /\ \E npc \in ai_state :
           /\ IsLivingCharacter(world, npc)
           /\ Sub(CoordOf(world.spatial_table, npc), CoordOf(world.spatial_table, player_entity))
                  \in {DirectionCoord(d) : d \in CardinalDirections}

----------------------------------------------------------------------------
(* Properties of AppData::handle_input, checked under SpecApp *)

\* where the player is
PlayerCoord == CoordOf(world.spatial_table, player_entity)

\* a call of GameState that took the turn of the player: a wait, a move that
\* moved the player, a get that picked the item up
TurnTaken ==
    \/ Calls("wait_player")
    \/ Calls("maybe_move_player") /\ PlayerCoord' # PlayerCoord
    \/ Calls("maybe_player_get_item") /\ call'.ret = "Ok"

----------------------------------------------------------------------------
(* Properties of the descent, checked under SpecDescend *)

\* the components of a character that a descent is to keep
CharacterComponents ==
    {"hit_points", "base_damage", "strength", "dexterity", "intelligence",
     "equipment_worn_inventory_index", "equipment_held_inventory_index"}

\* the call was a maybe_player_descend that went down the stairs
Descended == Calls("maybe_player_descend") /\ dungeon_level' # dungeon_level

\* the slots of the inventory of the player
PlayerSlots == world.components.inventory[player_entity].slots

\* C23: after a player_descend the hit points, the base damage, the
\* strength, dexterity and intelligence and the equipped indices of the
\* player are what they were, the inventory has the same capacity and holds
\* in every slot an item of the type it held there; the player is a living
\* character on the cell of the Player tile of the new level, no item of the
\* inventory has a place on the grid, and every cell is Never visible.
C23_DescentKeepsThePlayer ==
    [][Descended =>
          /\ \A name \in CharacterComponents :
                 ComponentOf(world'.components[name], player_entity')
                     = ComponentOf(world.components[name], player_entity)
          /\ Len(PlayerSlots') = Len(PlayerSlots)
          /\ \A i \in 1..Len(PlayerSlots) :
                 /\ PlayerSlots'[i] = NONE <=> PlayerSlots[i] = NONE
                 /\ PlayerSlots[i] # NONE =>
                        /\ ComponentOf(world'.components.item, PlayerSlots'[i])
                               = world.components.item[PlayerSlots[i]]
                        /\ ~HasCoord(world'.spatial_table, PlayerSlots'[i])
          /\ IsLivingCharacter(world', player_entity')
          /\ \E terrain \in Dungeons(world'.spatial_table.size) :
                 TerrainAt(terrain, PlayerCoord') = P
          /\ \A coord \in CoordsOf(world'.spatial_table.size) :
                 CellVisibility(visibility_grid', coord) = "Never"]_vars

\* C23 witness: a player who holds the sword and wears the armour has gone
\* down the stairs of a level on which it had seen cells
C23_Witness ==
    /\ call.op = "maybe_player_descend"
    /\ ~call.panic
    /\ dungeon_level = 2
    /\ stamped = <<>>
    /\ Has(world.components.equipment_held_inventory_index, player_entity)
    /\ Has(world.components.equipment_worn_inventory_index, player_entity)
    /\ \E i \in 1..Len(PlayerSlots) : PlayerSlots[i] # NONE

----------------------------------------------------------------------------
(* Properties of the stairs, checked under SpecLanding *)

\* the cell of the player has stairs on its floor layer
OnStairs == CoordContainsStairs(world, PlayerCoord)

\* the NPCs that are characters of the grid
NpcsOnTheGrid(w) ==
    {LayersAt(w.spatial_table, coord).character : coord \in CoordsOf(w.spatial_table.size)}
        \cap DOMAIN w.components.npc_type

\* C24: a maybe_player_descend of a player whose cell has no stairs changes
\* nothing; on stairs it raises dungeon_level by exactly 1 and leaves as the
\* agents the NPCs of the new level, one agent each; no operation lowers
\* dungeon_level.
C24_DescendOnlyOnStairs ==
    [][/\ dungeon_level' >= dungeon_level
       /\ Calls("maybe_player_descend") /\ ~OnStairs =>
              UNCHANGED <<world, player_entity, ai_state, message_log, dungeon_level,
                          visibility_grid, stamped>>
       /\ Calls("maybe_player_descend") /\ OnStairs =>
              /\ dungeon_level' = dungeon_level + 1
              /\ ai_state' = NpcsOnTheGrid(world')
              /\ ai_state' = DOMAIN world'.components.npc_type]_vars

\* C24 witness: the player has gone down from a landing with an orc nearby
\* to a landing without NPCs, and no agent is left
C24_Witness ==
    /\ call.op = "maybe_player_descend"
    /\ ~call.panic
    /\ dungeon_level = 2
    /\ ai_state = {}
    /\ message_log = <<>>
    /\ NpcsOnTheGrid(world) = {}

----------------------------------------------------------------------------
(* Properties of the message log, checked under Spec *)

\* C25: whatever operation of GameState is called, tick_animations and the
\* descent among them, the log before the call is a prefix of the log after
\* it: no message is removed, reordered or rewritten.
C25_LogAppendOnly ==
    [][/\ Len(message_log') >= Len(message_log)
       /\ SubSeq(message_log', 1, Len(message_log)) = message_log]_vars

\* C25 witness: the launch of a projectile has been appended to a log that
\* held messages
C25_Witness ==
    /\ call.op = "maybe_player_use_item_aim"
    /\ ~call.panic
    /\ Len(message_log) = log_limit
    /\ Len(message_log) > 1
    /\ message_log[Len(message_log)][1] = "PlayerLaunchesProjectile"

----------------------------------------------------------------------------
(* Properties of the fights of the NPCs, checked under SpecMelee *)

\* the living NPCs have the hit points they had
LivingNpcsHitPointsAsBefore ==
    \A npc \in DOMAIN world.components.npc_type :
        IsLivingCharacter(world, npc) =>
            /\ Has(world'.components.hit_points, npc)
            /\ world'.components.hit_points[npc] = world.components.hit_points[npc]

\* C26: the hit points of a living NPC change only in a move of the player
\* (a bump attack): a move of an NPC, of a confused one too, and a whole
\* ai_turn leave them as they were.
C26_NpcsNeverHurtNpcs ==
    [][\/ LivingNpcsHitPointsAsBefore
       \/ call'.op = "maybe_move_character" /\ call'.entity = player_entity]_vars

\* C26 witness: a confused NPC has been moved into the cell of another NPC
\* and has not attacked it
C26_Witness ==
    /\ call.op = "maybe_move_character"
    /\ ~call.panic
    /\ IsNpc(world, call.entity)
    /\ call.note.countdown # NONE
    /\ call.note.occupant # NONE
    /\ IsNpc(world, call.note.occupant)
    /\ IsLivingCharacter(world, call.note.occupant)
    /\ ~call.note.attack

----------------------------------------------------------------------------
(* Properties of generate_dungeon, checked under SpecDungeon *)

\* the cells of the grid generate_dungeon returned that hold the tile
CellsOf(tile) == {coord \in DOMAIN call.terrain : call.terrain[coord] = tile}

\* C27: every grid generate_dungeon returns, the grids with a single room
\* among them, has exactly one Player tile and at least one Stairs tile.
C27_OnePlayerAndStairs ==
    call.op = "generate_dungeon" =>
        /\ Cardinality(CellsOf(P)) = 1
        /\ Cardinality(CellsOf(S)) >= 1

----------------------------------------------------------------------------
(* Properties of one move_projectiles, checked under SpecFlight *)

\* the projectiles in flight
Projectiles == DOMAIN world.components.trajectory

\* the orders in which a loop can visit the entities
Orders(entities) ==
    {order \in [1..Cardinality(entities) -> entities] :
        \A i, j \in DOMAIN order : order[i] = order[j] => i = j}

\* what C28 is about in the result of a call: the hit points, the confusion
\* countdowns and the entities that are left
Outcome(ctx) ==
    [panic |-> ctx.panic,
     hit_points |-> ctx.world.components.hit_points,
     confusion_countdown |-> ctx.world.components.confusion_countdown,
     entities |-> ctx.world.entity_allocator.live]

\* the projectiles of the kind whose next step leads into the cell of the
\* character, as the characters stand before the call
HitsOn(character, kind) ==
    {projectile \in Projectiles :
        /\ world.components.trajectory[projectile] # <<>>
        /\ world.components.projectile[projectile].kind = kind
        /\ LayersAt(world.spatial_table, NextCell(world, projectile)).feature = NONE
        /\ LayersAt(world.spatial_table, NextCell(world, projectile)).character = character}

RECURSIVE TotalAmount(_)
TotalAmount(projectiles) ==
    IF projectiles = {} THEN 0
    ELSE LET projectile == CHOOSE p \in projectiles : TRUE
         IN  world.components.projectile[projectile].amount
                 + TotalAmount(projectiles \ {projectile})

\* the projectiles that fly on: they have a step left that leads to a cell
\* with neither a feature nor a character
FlyingOn ==
    {projectile \in Projectiles :
        /\ world.components.trajectory[projectile] # <<>>
        /\ LayersAt(world.spatial_table, NextCell(world, projectile)).feature = NONE
        /\ LayersAt(world.spatial_table, NextCell(world, projectile)).character = NONE}

----------------------------------------------------------------------------
(* Properties of ai_turn, checked under SpecCorpse *)

\* the call was a turn of the player in which ai_turn ran
AiTurnRan ==
    /\ Calls("wait_player") \/ Calls("maybe_move_player")
    /\ ~HasProjectiles(world)

\* the messages of the attacks of the NPCs
NpcAttackTags == {"NpcAttacksPlayer", "NpcKillsPlayer", "PlayerDodges"}

\* the cardinal steps between two coordinates
Steps(a, b) == Abs(a.x - b.x) + Abs(a.y - b.y)

\* C29: after a call in which ai_turn ran, the agents are the agents of
\* before whose entity is a living character, so every agent is on the
\* character layer; an NPC that is dead after the call is where it was; every
\* agent has made at most one step, and the NPCs have attacked the player at
\* most once each.
C29_OnlyTheLivingAct ==
    [][AiTurnRan =>
          /\ ai_state' = {agent \in ai_state : IsLivingCharacter(world', agent)}
          /\ \A agent \in ai_state' :
                 /\ IsLivingCharacter(world, agent)
                 /\ Steps(CoordOf(world'.spatial_table, agent),
                          CoordOf(world.spatial_table, agent)) <= 1
          /\ \A npc \in DOMAIN world.components.npc_type :
                 ~IsLivingCharacter(world', npc) =>
                     LocationOf(world'.spatial_table, npc) =
                         [coord |-> CoordOf(world.spatial_table, npc), layer |-> "object"]
          /\ Len(Tagged(Appended, NpcAttackTags)) <= Cardinality(ai_state')]_vars

\* C29 witness: ai_turn has run with the agent of a dead orc in the table:
\* the agent is gone, the corpse lies where the orc died, and the troll has
\* come a step nearer
C29_Witness ==
    /\ call.op = "wait_player"
    /\ ~call.panic
    /\ \E corpse \in DOMAIN world.components.npc_type :
           /\ ~IsLivingCharacter(world, corpse)
           /\ corpse \notin ai_state
           /\ CoordOf(world.spatial_table, corpse) = Coord(3, 0)
    /\ \E agent \in ai_state :
           /\ IsLivingCharacter(world, agent)
           /\ CoordOf(world.spatial_table, agent) = Coord(3, 0)

----------------------------------------------------------------------------
(* Properties of Agent::act, checked under SpecSight *)

\* the squared Euclidean distance of two coordinates
DistanceSquared(a, b) == (a.x - b.x) * (a.x - b.x) + (a.y - b.y) * (a.y - b.y)

\* the straight line from src to dst passes through a cell with a feature or
\* reaches a cell at a squared distance of more than 100 from src
Obstructed(w, src, dst) ==
    \E coord \in LineCoords(src, dst) :
        \/ LayersAt(w.spatial_table, coord).feature # NONE
        \/ DistanceSquared(src, coord) > 100

\* the agents that live through the call and whose line to the player, from
\* where they are before ai_turn to where the player is in it, is obstructed
ObstructedAgents ==
    {agent \in ai_state :
        /\ IsLivingCharacter(world, agent)
        /\ IsLivingCharacter(world', agent)
        /\ Obstructed(world, CoordOf(world.spatial_table, agent), PlayerCoord')}

\* C30: in a turn, an agent whose line to the player is obstructed keeps its
\* coordinate and its confusion countdown, and when the line of every agent
\* is obstructed the hit points of the player are unchanged and no NPC has
\* attacked.
C30_ObstructedAgentsWait ==
    [][AiTurnRan =>
          /\ \A agent \in ObstructedAgents :
                 /\ CoordOf(world'.spatial_table, agent) = CoordOf(world.spatial_table, agent)
                 /\ ComponentOf(world'.components.confusion_countdown, agent) =
                        ComponentOf(world.components.confusion_countdown, agent)
          /\ ObstructedAgents = ai_state =>
                 /\ world'.components.hit_points[player_entity] =
                        world.components.hit_points[player_entity]
                 /\ Tagged(Appended, NpcAttackTags) = <<>>]_vars

\* C30 witness: ai_turn has run with the player behind the wall from the
\* troll, or eleven cells from the orc, and the NPC is where it was
C30_Witness ==
    /\ call.op = "wait_player"
    /\ ~call.panic
    /\ PlayerCoord = Coord(0, 0)
    /\ \E agent \in ai_state :
           /\ IsLivingCharacter(world, agent)
           /\ CoordOf(world.spatial_table, agent) \in {Coord(2, 0), Coord(11, 0)}
           /\ Obstructed(world, CoordOf(world.spatial_table, agent), PlayerCoord)

----------------------------------------------------------------------------
(* Properties of the search of Agent::act, checked under SpecChase *)

\* the distance field ai_turn computed in the call
FieldOfTheTurn == DistanceMapToPlayer(world', PlayerCoord')

\* the agents that live through the call and were not confused before it
SoberAgents ==
    {agent \in ai_state :
        /\ IsLivingCharacter(world, agent)
        /\ IsLivingCharacter(world', agent)
        /\ ~Has(world.components.confusion_countdown, agent)}

\* the sober agents that have another coordinate after the call
Walkers ==
    {agent \in SoberAgents :
        CoordOf(world'.spatial_table, agent) # CoordOf(world.spatial_table, agent)}

\* the sober agents next to the player when ai_turn starts
Neighbours ==
    {agent \in SoberAgents : Steps(CoordOf(world.spatial_table, agent), PlayerCoord') = 1}

\* the agent has stepped to a cell in the grid without a feature, which it
\* alone occupies
SteppedToFreeCell(agent) ==
    LET new == CoordOf(world'.spatial_table, agent)
    IN  /\ IsValid(new, world'.spatial_table.size)
        /\ Steps(new, CoordOf(world.spatial_table, agent)) = 1
        /\ LayersAt(world'.spatial_table, new).feature = NONE
        /\ LayersAt(world'.spatial_table, new).character = agent

\* while the player lives the agents next to it stay and attack it, each once
NeighboursAttack ==
    IsLivingCharacter(world', player_entity) =>
        /\ \A agent \in Neighbours :
               CoordOf(world'.spatial_table, agent) = CoordOf(world.spatial_table, agent)
        /\ Len(Tagged(Appended, NpcAttackTags)) >= Cardinality(Neighbours)

----------------------------------------------------------------------------
(* Properties of character_die, checked under SpecGrave *)

\* the characters that die in the step
Dying ==
    {character \in DOMAIN world.spatial_table.location_component :
        IsLivingCharacter(world, character) /\ ~IsLivingCharacter(world', character)}

\* the entity on the object layer of the cell of the character, NONE for none
Beneath(character) ==
    LayersAt(world.spatial_table, CoordOf(world.spatial_table, character)).object

\* the entity beneath the dying character is destroyed, and the corpse of the
\* character has its place
CorpseReplaces(character) ==
    /\ Destroyed(world', Beneath(character))
    /\ LocationOf(world'.spatial_table, character) =
           [coord |-> CoordOf(world.spatial_table, character), layer |-> "object"]
    /\ LayersAt(world'.spatial_table, CoordOf(world.spatial_table, character)).object
           = character
    /\ world'.components.tile[character][1] \in {"PlayerCorpse", "NpcCorpse"}

\* C32 as stated: an item beneath a dying character is destroyed and the
\* corpse takes its place, and an entity on the object layer that is not an
\* item is not destroyed.
C32_OnlyItemsDestroyed ==
    [][/\ \A character \in Dying :
              Has(world.components.item, Beneath(character)) => CorpseReplaces(character)
       /\ \A entity \in DOMAIN world.spatial_table.location_component :
              /\ LayerOf(world.spatial_table, entity) = "object"
              /\ ~Has(world.components.item, entity)
              => HasCoord(world'.spatial_table, entity)]_vars

\* C32 amended: the entity beneath a dying character, an item or a corpse, is
\* destroyed and the corpse takes its place, and no other entity is
\* destroyed.
C32_ObjectBeneathDestroyed ==
    [][/\ \A character \in Dying :
              Beneath(character) # NONE => CorpseReplaces(character)
       /\ \A entity \in DOMAIN world.spatial_table.location_component :
              entity \notin {Beneath(character) : character \in Dying}
              => /\ HasCoord(world'.spatial_table, entity)
                 /\ entity \in world'.entity_allocator.live]_vars

\* C32 witness: the troll has died on the cell where the corpse of the orc
\* lay: the corpse of the troll lies there and nothing is left of the orc
C32_Witness ==
    /\ call.op = "maybe_move_character"
    /\ ~call.panic
    /\ \E troll \in DOMAIN world.components.npc_type :
           /\ world.components.tile[troll] = <<"NpcCorpse", "Troll">>
           /\ LocationOf(world.spatial_table, troll) =
                  [coord |-> Coord(3, 0), layer |-> "object"]
    /\ "Orc" \notin {world.components.npc_type[npc] :
                        npc \in DOMAIN world.components.npc_type}

----------------------------------------------------------------------------
(* Properties of character_damage and character_die, checked under          *)
(* SpecCrossfire                                                            *)

\* the first loop of a move_projectiles on the world would not abort
FirstLoopPasses ==
    StepProjectiles(Stepping(world), Ascending(DOMAIN world.components.trajectory)).ok

\* the NPCs of the world that are dead
DeadNpcs(w) == {npc \in DOMAIN w.components.npc_type : ~IsLivingCharacter(w, npc)}

\* C33: a maybe_move_character does not abort, a move_projectiles whose first
\* loop passes does not abort in character_damage and character_die, and the
\* log has at most one NpcDies for every dead NPC.
C33_CharacterDieNeverAborts ==
    [][/\ call'.op = "maybe_move_character" => ~call'.panic
       /\ call'.op = "move_projectiles" /\ FirstLoopPasses =>
              /\ ~call'.panic
              /\ Len(Tagged(message_log', {"NpcDies"})) <= Cardinality(DeadNpcs(world'))]_vars

----------------------------------------------------------------------------
(* Properties of the hit points, checked under SpecHealth *)

\* C34: in every state the hit points of every entity that has hit points
\* are at least 0 and at most their maximum.
C34_HitPointsWithinBounds ==
    \A entity \in DOMAIN world.components.hit_points :
        LET hit_points == world.components.hit_points[entity]
        IN  0 <= hit_points.current /\ hit_points.current <= hit_points.max

\* C34 witness: the player, wounded by 3, has drunk the potion, which heals
\* 5, and has the hit points of its maximum
C34_Witness ==
    /\ call.op = "maybe_use_item"
    /\ call.ret = "Immediate"
    /\ ~call.panic
    /\ world.components.hit_points[player_entity].current =
           world.components.hit_points[player_entity].max

----------------------------------------------------------------------------
(* Properties of the living and the dead, checked under SpecAfterlife *)

\* C35: in every state an entity with hit points is a living character with
\* the tile of the player or of an NPC exactly when its hit points are more
\* than 0, and a corpse has 0 hit points.
C35_LivingIffHitPoints ==
    \A entity \in DOMAIN world.components.hit_points :
        LET current == world.components.hit_points[entity].current
            tile == ComponentOf(world.components.tile, entity)
        IN  /\ (IsLivingCharacter(world, entity) /\ tile[1] \in {"Player", "Npc"})
                   <=> current > 0
            /\ tile[1] \in {"PlayerCorpse", "NpcCorpse"} => current = 0

----------------------------------------------------------------------------
(* Properties of the places of the characters, checked under SpecRoam *)

\* C36: in every state no cell holds an entity on the feature layer and an
\* entity on the character layer, and every entity on the character layer
\* has a coordinate inside the grid.
C36_CharactersOffFeatures ==
    /\ \A coord \in CoordsOf(world.spatial_table.size) :
           ~(/\ LayersAt(world.spatial_table, coord).feature # NONE
             /\ LayersAt(world.spatial_table, coord).character # NONE)
    /\ \A entity \in DOMAIN world.spatial_table.location_component :
           IsLivingCharacter(world, entity) =>
               IsValid(CoordOf(world.spatial_table, entity), world.spatial_table.size)

\* C36 witness: a confused character was sent towards a wall or out of the
\* grid, in another direction than the one asked for, and is where it was
C36_Witness ==
    /\ Moved
    /\ call.note.countdown # NONE
    /\ call.note.direction # call.direction
    /\ \/ ~IsValid(TargetOf(call.note), world.spatial_table.size)
       \/ LayersAt(world.spatial_table, TargetOf(call.note)).feature # NONE
    /\ IsLivingCharacter(world, call.entity)
    /\ CoordOf(world.spatial_table, call.entity) = call.note.from

----------------------------------------------------------------------------
(* Properties of the player's actions during an animation, checked under    *)
(* SpecFlight                                                               *)

\* the operations of GameState that act for the player
PlayerActions ==
    {"wait_player", "maybe_move_player", "maybe_player_get_item", "maybe_player_use_item",
     "maybe_player_use_item_aim", "maybe_player_drop_item", "maybe_player_descend"}

\* C37: a player action called while a projectile is in flight leaves the
\* world, the agents and the message log as they were (so no ai_turn ran).
C37_NoPlayerActionInFlight ==
    [][(HasProjectiles(world) /\ call'.op \in PlayerActions /\ ~call'.panic) =>
           /\ world' = world
           /\ ai_state' = ai_state
           /\ message_log' = message_log]_vars

----------------------------------------------------------------------------
(* Properties of the end of an animation, checked under SpecFrames *)

\* the steps left to a projectile
TrajectoryLength(w, projectile) == Len(w.components.trajectory[projectile])

\* a frame takes one step off every trajectory or destroys the projectile,
\* destroys those with no step left and brings no projectile
FrameShortens ==
    Calls("tick_animations") =>
        /\ DOMAIN world'.components.trajectory \subseteq DOMAIN world.components.trajectory
        /\ \A projectile \in DOMAIN world.components.trajectory :
               \/ /\ ~Has(world'.components.trajectory, projectile)
                  /\ ~HasCoord(world'.spatial_table, projectile)
               \/ /\ TrajectoryLength(world, projectile) > 0
                  /\ TrajectoryLength(world', projectile)
                         = TrajectoryLength(world, projectile) - 1

\* a player action during the flight launches nothing and lengthens nothing
FlightUntouched ==
    (call'.op # "tick_animations" /\ HasProjectiles(world)) =>
        world'.components.trajectory = world.components.trajectory

\* C38: with tick_animations called again and again and no projectile
\* launched, every frame takes one step off each trajectory or destroys the
\* projectile, and one with no step left is destroyed, so that a projectile
\* is gone after at most its trajectory length + 1 frames; has_projectiles
\* becomes false, and the player's actions are accepted again.
C38_ProjectilesLand ==
    /\ [][FrameShortens /\ FlightUntouched]_vars
    /\ HasProjectiles(world) ~> ~HasProjectiles(world)

\* C38 witness: the last projectile has been destroyed by a frame and has
\* left no mark on any character (it ran out of steps on a free cell)
C38_Witness ==
    /\ call.op = "tick_animations"
    /\ ~call.panic
    /\ ~HasProjectiles(world)
    /\ DOMAIN world.components.projectile = {}
    /\ DOMAIN world.components.confusion_countdown = {}
    /\ \E npc \in DOMAIN world.components.npc_type : IsLivingCharacter(world, npc)
    /\ \A character \in DOMAIN world.components.hit_points :
           world.components.hit_points[character].current
               = world.components.hit_points[character].max

----------------------------------------------------------------------------
(* Properties of GameState::examine_cell, checked under SpecApp *)

\* the coordinates examined: those of the grid and those around it
ExamineCoords ==
    {Coord(x, y) : x \in -1..world.spatial_table.size.width,
                   y \in -1..world.spatial_table.size.height}

\* the coordinates that are not visible now
Unseen == {coord \in ExamineCoords : CellVisibility(visibility_grid, coord) # "Currently"}

\* the entities on the cells that are not visible now
UnseenEntities ==
    {entity \in DOMAIN world.spatial_table.location_component :
        CoordOf(world.spatial_table, entity) \in Unseen}

\* C39: examine_cell returns None for every coordinate whose visibility is
\* Previously or Never and for every coordinate outside the grid, whatever
\* the cell holds; a world without one of the entities of the cells that
\* are not visible gives the same result as the world for every coordinate.
C39_UnseenCellsTellNothing ==
    /\ \A coord \in Unseen :
           GameExamineCell(world, visibility_grid, coord) = NoExamineCell
    /\ \A entity \in UnseenEntities, coord \in ExamineCoords :
           GameExamineCell(RemoveEntity(world, entity), visibility_grid, coord)
               = GameExamineCell(world, visibility_grid, coord)

\* C39 witness: a cell seen before and a cell never seen each hold something
\* World::examine_cell would name, and a visible cell is examined with a
\* result
C39_Witness ==
    /\ \E coord \in Unseen :
           /\ CellVisibility(visibility_grid, coord) = "Previously"
           /\ WorldExamineCell(world, coord) # NoExamineCell
    /\ \E coord \in Unseen :
           /\ CellVisibility(visibility_grid, coord) = "Never"
           /\ WorldExamineCell(world, coord) # NoExamineCell
    /\ \E coord \in ExamineCoords :
           GameExamineCell(world, visibility_grid, coord) # NoExamineCell

====
